---------------------------- MODULE Spec2Model ----------------------------
(***************************************************************************)
(* A model of tap-openproject: the link resolver, the replication-filter   *)
(* validator and the per-stream request hooks of                           *)
(* tap_openproject/streams.py, run by the paging sync of one stream; the   *)
(* HTTP client's URL check, timeout and retry limit; do_sync of            *)
(* run_with_config.py and the script of src/streams.py; the order in       *)
(* which the discovered streams are synced; and the resolution of project  *)
(* identifiers in tap.py, followed by the streams' first requests.         *)
(*                                                                         *)
(* Python values are tagged records [t |-> kind, v |-> payload]; a str is  *)
(* a sequence of one-character strings, so that rstrip, split, replace     *)
(* and int() are computed character by character; a dict is a function    *)
(* from its keys to values.                                                *)
(***************************************************************************)
EXTENDS Integers, Sequences, FiniteSets, TLC

\* ------------------------------------------------------------------ bounds

\* longest href drawn from HrefAlphabet
MaxHrefLen == 4
\* largest total a regular server reports
MaxTotal == 7
\* largest page size a regular server reports
MaxPageSize == 3
\* largest HttpClient.max_retries drawn
MaxRetriesBound == 2
\* longest endpoint drawn from EndpointAlphabet
MaxEndpointLen == 3

\* the most records a stream holds in a run over the streams
MaxParentRecords == 2

\* the most projects of a server that fit in less than one page
MaxFewProjects == 2

\* the most elements of the roles link of a membership
MaxRoles == 2

\* ------------------------------------------------------------ Python values

None == [t |-> "null", v |-> 0]
JBool(b) == [t |-> "bool", v |-> b]
JInt(n) == [t |-> "int", v |-> n]
JStr(s) == [t |-> "str", v |-> s]
JObj(f) == [t |-> "obj", v |-> f]
JList(s) == [t |-> "list", v |-> s]
Raise(e) == [t |-> "raise", v |-> e]

EmptyDict == [k \in {} |-> None]

\* the marker of a key that a dict does not hold
Absent == [t |-> "absent", v |-> 0]

\* bool(x) for the values the code tests
Truthy(x) ==
    CASE x.t = "null" -> FALSE
      [] x.t = "bool" -> x.v
      [] x.t = "int" -> x.v # 0
      [] x.t = "str" -> Len(x.v) > 0
      [] x.t = "list" -> Len(x.v) > 0
      [] x.t = "obj" -> DOMAIN x.v # {}
      [] OTHER -> TRUE

\* d.get(k, default) on a dict d
DictGet(d, k, default) == IF k \in DOMAIN d THEN d[k] ELSE default

\* d.update(e)
DictUpdate(d, e) ==
    [k \in DOMAIN d \cup DOMAIN e |-> IF k \in DOMAIN e THEN e[k] ELSE d[k]]

\* F(e), with e evaluated once
With(e, F(_)) == CHOOSE r \in {F(x) : x \in {e}} : TRUE

\* ------------------------------------------------------------ str helpers

Digits == {"0", "1", "2", "3", "4", "5", "6", "7", "8", "9"}

DigitVal(c) ==
    CASE c = "0" -> 0 [] c = "1" -> 1 [] c = "2" -> 2 [] c = "3" -> 3
      [] c = "4" -> 4 [] c = "5" -> 5 [] c = "6" -> 6 [] c = "7" -> 7
      [] c = "8" -> 8 [] c = "9" -> 9

AllDigits(s) == Len(s) > 0 /\ \A i \in 1..Len(s) : s[i] \in Digits

RECURSIVE DecimalValue(_)
DecimalValue(s) ==
    IF s = <<>> THEN 0
    ELSE 10 * DecimalValue(SubSeq(s, 1, Len(s) - 1)) + DigitVal(s[Len(s)])

\* s.rstrip(c): every trailing c is removed
RECURSIVE rstrip(_, _)
rstrip(s, c) ==
    IF s = <<>> THEN s
    ELSE IF s[Len(s)] = c THEN rstrip(SubSeq(s, 1, Len(s) - 1), c)
    ELSE s

\* s.find(c), counted from 1: 0 when c does not occur
find(s, c) ==
    IF \A i \in 1..Len(s) : s[i] # c THEN 0
    ELSE CHOOSE j \in 1..Len(s) : s[j] = c /\ \A k \in 1..(j - 1) : s[k] # c

\* s.split(c): the list of the segments between the occurrences of c
RECURSIVE split(_, _)
split(s, c) ==
    With(find(s, c), LAMBDA i :
        IF i = 0 THEN <<s>>
        ELSE With(SubSeq(s, i + 1, Len(s)), LAMBDA rest :
                 <<SubSeq(s, 1, i - 1)>> \o split(rest, c)))

\* s.lstrip(c): every leading c is removed
RECURSIVE lstrip(_, _)
lstrip(s, c) ==
    IF s = <<>> THEN s
    ELSE IF s[1] = c THEN lstrip(SubSeq(s, 2, Len(s)), c)
    ELSE s

\* sub in s
Contains(s, sub) ==
    \E i \in 1..(Len(s) - Len(sub) + 1) : SubSeq(s, i, i + Len(sub) - 1) = sub

\* s.startswith(prefix)
startswith(s, prefix) ==
    Len(prefix) <= Len(s) /\ SubSeq(s, 1, Len(prefix)) = prefix

\* sep.join(parts)
RECURSIVE join(_, _)
join(sep, parts) ==
    IF parts = <<>> THEN <<>>
    ELSE IF Len(parts) = 1 THEN parts[1]
    ELSE parts[1] \o <<sep>> \o join(sep, Tail(parts))

\* int(s) on a str of sign characters, digits and other characters:
\* an optional sign and at least one digit, anything else is a ValueError
int(s) ==
    LET signed == Len(s) > 0 /\ s[1] \in {"+", "-"}
        body == IF signed THEN SubSeq(s, 2, Len(s)) ELSE s
    IN IF AllDigits(body)
       THEN JInt(IF signed /\ s[1] = "-" THEN 0 - DecimalValue(body)
                 ELSE DecimalValue(body))
       ELSE Raise("ValueError")

\* str(n) of a natural number
RECURSIVE str(_)
str(n) ==
    LET digit == CHOOSE c \in Digits : DigitVal(c) = n % 10
    IN IF n < 10 THEN <<digit>> ELSE str(n \div 10) \o <<digit>>

\* ------------------------------------------------------------ link resolver

\* extract_id_from_href with the last segment taken from the front
extract_id_first_segment(href) ==
    IF ~Truthy(href) THEN None
    ELSE LET segs == split(rstrip(href.v, "/"), "/")
             r == int(segs[1])
         IN IF r.t = "raise" /\ r.v \in {"ValueError", "IndexError"}
            THEN None ELSE r

\* OpenProjectStream.extract_id_from_href
extract_id_from_href(href) ==
    IF ~Truthy(href) THEN None
    ELSE LET segs == split(rstrip(href.v, "/"), "/")
             r == int(segs[Len(segs)])
         IN IF r.t = "raise" /\ r.v \in {"ValueError", "IndexError"}
            THEN None ELSE r

\* flatten_link with the title dropped when the link has no href
flatten_link_title_needs_href(links, key, extract_id) ==
    LET link_obj == DictGet(links, key, JObj(EmptyDict))
        has == Truthy(link_obj) /\ "href" \in DOMAIN link_obj.v
        title == (key \o "_title") :>
                     (IF has THEN DictGet(link_obj.v, "title", None) ELSE None)
        id == (key \o "_id") :>
                  (IF has THEN extract_id_from_href(DictGet(link_obj.v, "href", None))
                   ELSE None)
    IN IF extract_id THEN title @@ id ELSE title

\* OpenProjectStream.flatten_link
flatten_link(links, key, extract_id) ==
    LET link_obj == DictGet(links, key, JObj(EmptyDict))
        title == (key \o "_title") :>
                     (IF Truthy(link_obj)
                      THEN DictGet(link_obj.v, "title", None) ELSE None)
        id == (key \o "_id") :>
                  (IF Truthy(link_obj)
                   THEN extract_id_from_href(DictGet(link_obj.v, "href", None))
                   ELSE None)
    IN IF extract_id THEN title @@ id ELSE title

\* ------------------------------------------------- replication-filter validator

\* +00:00
Z_replacement ==
    <<"+", "0", "0", ":", "0", "0">>

\* date_string.replace('Z', '+00:00')
RECURSIVE replace_Z(_)
replace_Z(s) ==
    IF s = <<>> THEN s
    ELSE (IF Head(s) = "Z" THEN Z_replacement ELSE <<Head(s)>>)
             \o replace_Z(Tail(s))

IsLeap(y) == (y % 4 = 0 /\ y % 100 # 0) \/ y % 400 = 0

DaysInMonth(y, m) ==
    CASE m \in {1, 3, 5, 7, 8, 10, 12} -> 31
      [] m \in {4, 6, 9, 11} -> 30
      [] m = 2 -> IF IsLeap(y) THEN 29 ELSE 28
      [] OTHER -> 0

\* the date part YYYY-MM-DD of an isoformat str names a day of the calendar
parse_isoformat_date(d) ==
    /\ Len(d) = 10
    /\ AllDigits(SubSeq(d, 1, 4)) /\ d[5] = "-"
    /\ AllDigits(SubSeq(d, 6, 7)) /\ d[8] = "-"
    /\ AllDigits(SubSeq(d, 9, 10))
    /\ LET y == DecimalValue(SubSeq(d, 1, 4))
           m == DecimalValue(SubSeq(d, 6, 7))
           day == DecimalValue(SubSeq(d, 9, 10))
       IN y >= 1 /\ m \in 1..12 /\ day \in 1..DaysInMonth(y, m)

\* HH[:MM[:SS]] with every component in range, hours below limit
parse_hh_mm_ss(ts, limit) ==
    /\ Len(ts) \in {2, 5, 8}
    /\ AllDigits(SubSeq(ts, 1, 2)) /\ DecimalValue(SubSeq(ts, 1, 2)) < limit
    /\ Len(ts) >= 5 =>
           /\ ts[3] = ":" /\ AllDigits(SubSeq(ts, 4, 5))
           /\ DecimalValue(SubSeq(ts, 4, 5)) < 60
    /\ Len(ts) = 8 =>
           /\ ts[6] = ":" /\ AllDigits(SubSeq(ts, 7, 8))
           /\ DecimalValue(SubSeq(ts, 7, 8)) < 60

\* the time part: a time, then from its first '-' (or else '+') the offset
\* HH:MM
parse_isoformat_time(ts) ==
    LET signs == {i \in 1..Len(ts) : ts[i] = "-"}
        pluses == {i \in 1..Len(ts) : ts[i] = "+"}
        first(S) == CHOOSE i \in S : \A j \in S : i <= j
        tz_pos == IF signs # {} THEN first(signs)
                  ELSE IF pluses # {} THEN first(pluses) ELSE 0
        timestr == IF tz_pos > 0 THEN SubSeq(ts, 1, tz_pos - 1) ELSE ts
        tzstr == SubSeq(ts, tz_pos + 1, Len(ts))
    IN /\ parse_hh_mm_ss(timestr, 24)
       /\ tz_pos > 0 => Len(tzstr) = 5 /\ parse_hh_mm_ss(tzstr, 24)

\* datetime.fromisoformat on the extended format without fractions:
\* YYYY-MM-DD[*HH[:MM[:SS]][(+|-)HH:MM]], where * is any one character
fromisoformat(s) ==
    IF /\ Len(s) >= 10
       /\ parse_isoformat_date(SubSeq(s, 1, 10))
       /\ Len(s) > 10 => parse_isoformat_time(SubSeq(s, 12, Len(s)))
    THEN None
    ELSE Raise("ValueError")

\* OpenProjectStream._validate_datetime: None, or the ValueError it raises
\* (a value that is no str has no replace: the AttributeError is caught too)
validate_datetime(date_string) ==
    IF date_string.t # "str" THEN Raise("ValueError")
    ELSE LET r == fromisoformat(replace_Z(date_string.v))
         IN IF r.t = "raise" /\ r.v \in {"ValueError", "AttributeError"}
            THEN Raise("ValueError") ELSE r

\* -------------------------------------------------------------- HTTP client

Letters ==
    {"a", "b", "c", "d", "e", "f", "g", "h", "i", "j", "k", "l", "m", "n",
     "o", "p", "q", "r", "s", "t", "u", "v", "w", "x", "y", "z"}

\* urllib.parse.scheme_chars, lower case
SchemeChars == Letters \cup Digits \cup {"+", "-", "."}

\* urlsplit on a str without '?', '#', ';' or white space: the scheme (or
\* the default one), the netloc after '//', and the path
urlsplit(url, default_scheme) ==
    With(find(url, ":"), LAMBDA i :
        LET has_scheme == /\ i > 1
                          /\ url[1] \in Letters
                          /\ \A k \in 1..(i - 1) : url[k] \in SchemeChars
            scheme == IF has_scheme THEN SubSeq(url, 1, i - 1)
                      ELSE default_scheme
        IN With(IF has_scheme THEN SubSeq(url, i + 1, Len(url)) ELSE url,
                LAMBDA rest :
                    IF ~startswith(rest, <<"/", "/">>)
                    THEN [scheme |-> scheme, netloc |-> <<>>, path |-> rest]
                    ELSE With(SubSeq(rest, 3, Len(rest)), LAMBDA after :
                        With(find(after, "/"), LAMBDA j :
                            [scheme |-> scheme,
                             netloc |-> IF j = 0 THEN after
                                        ELSE SubSeq(after, 1, j - 1),
                             path |-> IF j = 0 THEN <<>>
                                      ELSE SubSeq(after, j, Len(after))]))))

\* urlunsplit of an http(s) scheme, a netloc and a path
urlunsplit(scheme, netloc, path) ==
    scheme \o <<":", "/", "/">> \o netloc
        \o (IF path # <<>> /\ path[1] # "/" THEN <<"/">> ELSE <<>>) \o path

\* the segments of urljoin with the empty ones between first and last removed
filter_middle(segments) ==
    IF Len(segments) <= 2 THEN segments
    ELSE <<segments[1]>>
         \o SelectSeq(SubSeq(segments, 2, Len(segments) - 1),
                      LAMBDA seg : seg # <<>>)
         \o <<segments[Len(segments)]>>

\* urljoin: '.' segments are dropped and '..' removes the segment before it
RECURSIVE resolve_dots(_, _)
resolve_dots(segments, resolved) ==
    IF segments = <<>> THEN resolved
    ELSE LET seg == Head(segments)
         IN IF seg = <<".", ".">>
            THEN resolve_dots(Tail(segments),
                     IF resolved = <<>> THEN resolved
                     ELSE SubSeq(resolved, 1, Len(resolved) - 1))
            ELSE IF seg = <<".">>
            THEN resolve_dots(Tail(segments), resolved)
            ELSE resolve_dots(Tail(segments), Append(resolved, seg))

\* urljoin: the segments of the base path and of the path joined to it
join_segments(bpath, path) ==
    With(split(bpath, "/"), LAMBDA parts :
        With(IF parts[Len(parts)] # <<>>
             THEN SubSeq(parts, 1, Len(parts) - 1) ELSE parts,
             LAMBDA base_parts :
                 IF path[1] = "/" THEN split(path, "/")
                 ELSE filter_middle(base_parts \o split(path, "/"))))

\* urljoin: the path made of the segments
resolved_path(segments) ==
    With(resolve_dots(segments, <<>>), LAMBDA resolved :
        With(IF segments[Len(segments)] \in {<<".">>, <<".", ".">>}
             THEN Append(resolved, <<>>) ELSE resolved,
             LAMBDA closed :
                 With(join("/", closed), LAMBDA joined :
                     IF joined = <<>> THEN <<"/">> ELSE joined)))

\* urllib.parse.urljoin(base, url) for an http(s) base with a netloc
urljoin(base, url) ==
    IF url = <<>> THEN base
    ELSE With(urlsplit(base, <<>>), LAMBDA b :
         With(urlsplit(url, b.scheme), LAMBDA u :
             IF u.scheme # b.scheme THEN url
             ELSE IF u.netloc # <<>>
             THEN urlunsplit(u.scheme, u.netloc, u.path)
             ELSE IF u.path = <<>>
             THEN urlunsplit(b.scheme, b.netloc, b.path)
             ELSE With(join_segments(b.path, u.path), LAMBDA segments :
                      urlunsplit(b.scheme, b.netloc,
                                 resolved_path(segments)))))

\* HttpClient.DEFAULT_TIMEOUT, in seconds
DEFAULT_TIMEOUT == 30

\* HttpClient.DEFAULT_MAX_RETRIES
DEFAULT_MAX_RETRIES == 3

\* the statuses the session's Retry strategy retries
status_forcelist == {429, 500, 502, 503, 504}

\* HttpClient.__init__: self.timeout
HttpClient_timeout(timeout) ==
    IF Truthy(timeout) THEN timeout.v ELSE DEFAULT_TIMEOUT

\* HttpClient.__init__: self.max_retries
HttpClient_max_retries(max_retries) ==
    IF Truthy(max_retries) THEN max_retries.v ELSE DEFAULT_MAX_RETRIES

\* the requests session.get sends to a server that answers every one with
\* status_code, under Retry(total = max_retries, raise_on_status = False)
session_get_attempts(max_retries, status_code) ==
    IF status_code \in status_forcelist THEN 1 + max_retries ELSE 1

\* HttpClient.__init__: the base_url kept by the client
HttpClient_base_url(base_url) == rstrip(base_url, "/")

\* HttpClient.get up to the request: the URL requested, or the ValueError
HttpClient_get_url(base_url, endpoint) ==
    With(lstrip(endpoint, "/"), LAMBDA stripped :
        IF Contains(stripped, <<".", ".">>) \/ startswith(stripped, <<"/">>)
        THEN Raise("ValueError")
        ELSE With(urljoin(base_url \o <<"/">>, stripped), LAMBDA url :
                 IF ~startswith(url, base_url) THEN Raise("ValueError")
                 ELSE JStr(url)))

\* ------------------------------------------------------- stream definitions

\* updatedAt
Key_updatedAt ==
    <<"u", "p", "d", "a", "t", "e", "d", "A", "t">>

\* TapOpenProject.discover_streams, the streams that are no child stream
StreamNames ==
    <<"projects", "work_packages", "statuses", "types", "priorities",
      "roles", "users", "versions", "time_entries", "relations",
      "memberships">>

\* the replication_key each stream class declares
replication_key(stream) ==
    IF stream \in {"projects", "work_packages", "types", "users", "versions",
                   "time_entries", "memberships"}
    THEN JStr(Key_updatedAt)
    ELSE None

\* the stream's bookmark in the state the run was started with, or None
get_starting_replication_key_value(stream, state) ==
    DictGet(state, stream, None)

\* [{"
Filter_open ==
    <<"[", "{", "\"">>

\* ":{"operator":">=","values":["
Filter_mid ==
    <<"\"", ":", "{", "\"", "o", "p", "e", "r", "a", "t", "o", "r", "\"",
      ":", "\"", ">", "=", "\"", ",", "\"", "v", "a", "l", "u", "e", "s",
      "\"", ":", "[", "\"">>

\* "]}}]
Filter_close ==
    <<"\"", "]", "}", "}", "]">>

\* get_url_params that filters whenever start_date is set
get_url_params_ignores_state(stream, config, state, next_page_token) ==
    LET offset == IF Truthy(next_page_token)
                  THEN ("offset" :> next_page_token) ELSE EmptyDict
        start_date == DictGet(config, "start_date", None)
    IN IF Truthy(replication_key(stream)) /\ Truthy(start_date)
       THEN IF validate_datetime(start_date).t = "raise"
            THEN validate_datetime(start_date)
            ELSE JObj(DictUpdate(offset,
                     "filters" :> JStr(Filter_open \o replication_key(stream).v
                                         \o Filter_mid \o start_date.v
                                         \o Filter_close)))
       ELSE JObj(offset)

\* get_url_params that filters on the configured projects, for a stream
\* without a bookmark
get_url_params_filters_projects(stream, config, state, next_page_token) ==
    LET params == get_url_params_ignores_state(stream, config, state,
                                               next_page_token)
    IN IF params.t # "raise" /\ Truthy(DictGet(config, "project_ids", None))
       THEN JObj(DictUpdate(params.v, "project" :> config["project_ids"]))
       ELSE params

\* OpenProjectStream.get_url_params: the params dict, or the error raised
get_url_params(stream, config, state, next_page_token) ==
    LET offset == IF Truthy(next_page_token)
                  THEN ("offset" :> next_page_token) ELSE EmptyDict
        start_date == DictGet(config, "start_date", None)
    IN IF /\ Truthy(replication_key(stream))
          /\ Truthy(start_date)
          /\ ~Truthy(get_starting_replication_key_value(stream, state))
       THEN IF validate_datetime(start_date).t = "raise"
            THEN validate_datetime(start_date)
            ELSE JObj(DictUpdate(offset,
                     "filters" :> JStr(Filter_open \o replication_key(stream).v
                                         \o Filter_mid \o start_date.v
                                         \o Filter_close)))
       ELSE JObj(offset)

\* response.raise_for_status() raises for the client and server error codes
raises_for_status(status_code) == status_code >= 400 /\ status_code < 600

\* parse_response that reads the elements of the top-level body
parse_response_top_level(response) ==
    IF raises_for_status(response.status_code)
    THEN IF 500 <= response.status_code /\ response.status_code < 600
         THEN Raise("RetriableAPIError")
         ELSE Raise("FatalAPIError")
    ELSE IF ~response.is_json THEN Raise("FatalAPIError")
    ELSE DictGet(response.data, "elements", JList(<<>>))

\* parse_response that takes a body that is no JSON for a passing failure
parse_response_retries_bad_json(response) ==
    IF raises_for_status(response.status_code)
    THEN IF 500 <= response.status_code /\ response.status_code < 600
         THEN Raise("RetriableAPIError")
         ELSE Raise("FatalAPIError")
    ELSE IF ~response.is_json THEN Raise("RetriableAPIError")
    ELSE LET embedded == DictGet(response.data, "_embedded", JObj(EmptyDict))
         IN DictGet(embedded.v, "elements", JList(<<>>))

\* OpenProjectStream.parse_response: the list of records, or the error raised
OpenProjectStream_parse_response(response) ==
    IF raises_for_status(response.status_code)
    THEN IF 500 <= response.status_code /\ response.status_code < 600
         THEN Raise("RetriableAPIError")
         ELSE Raise("FatalAPIError")
    ELSE IF ~response.is_json THEN Raise("FatalAPIError")
    ELSE LET embedded == DictGet(response.data, "_embedded", JObj(EmptyDict))
         IN DictGet(embedded.v, "elements", JList(<<>>))

\* UsersStream.parse_response
UsersStream_parse_response(response) ==
    IF response.status_code = 403 THEN JList(<<>>)
    ELSE OpenProjectStream_parse_response(response)

\* the warnings parse_response logs: UsersStream logs one on a 403
parse_response_warnings(stream, response) ==
    IF stream = "users" /\ response.status_code = 403 THEN 1 ELSE 0

\* parse_response of the stream's class
parse_response(stream, response) ==
    IF stream = "users" THEN UsersStream_parse_response(response)
    ELSE OpenProjectStream_parse_response(response)

\* get_next_page_token that goes on while next_offset <= total
get_next_page_token_inclusive(response, previous_token) ==
    IF ~response.is_json THEN Raise("JSONDecodeError")
    ELSE LET data == response.data
             links == DictGet(data, "_links", JObj(EmptyDict))
             total == DictGet(data, "total", JInt(0))
             elements == DictGet(DictGet(data, "_embedded", JObj(EmptyDict)).v,
                                 "elements", JList(<<>>))
             page_size == DictGet(data, "pageSize", JInt(Len(elements.v)))
             current_offset == DictGet(data, "offset", JInt(0))
             next_offset == current_offset.v + page_size.v
         IN IF "nextByOffset" \in DOMAIN links.v /\ next_offset <= total.v
            THEN JInt(next_offset)
            ELSE None

\* get_next_page_token that goes by the offsets alone
get_next_page_token_ignores_link(response, previous_token) ==
    IF ~response.is_json THEN Raise("JSONDecodeError")
    ELSE LET data == response.data
             total == DictGet(data, "total", JInt(0))
             elements == DictGet(DictGet(data, "_embedded", JObj(EmptyDict)).v,
                                 "elements", JList(<<>>))
             page_size == DictGet(data, "pageSize", JInt(Len(elements.v)))
             current_offset == DictGet(data, "offset", JInt(0))
             next_offset == current_offset.v + page_size.v
         IN IF next_offset < total.v THEN JInt(next_offset) ELSE None

\* OpenProjectStream.get_next_page_token: the next offset, None, or the
\* error response.json() raises on a body that is no JSON
get_next_page_token(response, previous_token) ==
    IF ~response.is_json THEN Raise("JSONDecodeError")
    ELSE LET data == response.data
             links == DictGet(data, "_links", JObj(EmptyDict))
             total == DictGet(data, "total", JInt(0))
             elements == DictGet(DictGet(data, "_embedded", JObj(EmptyDict)).v,
                                 "elements", JList(<<>>))
             page_size == DictGet(data, "pageSize", JInt(Len(elements.v)))
             current_offset == DictGet(data, "offset", JInt(0))
             next_offset == current_offset.v + page_size.v
         IN IF "nextByOffset" \in DOMAIN links.v /\ next_offset < total.v
            THEN JInt(next_offset)
            ELSE None

\* ProjectsStream.post_process
ProjectsStream_post_process(row) ==
    IF "_links" \in DOMAIN row /\ Truthy(row["_links"])
    THEN DictUpdate(row, flatten_link(row["_links"].v, "parent", TRUE))
    ELSE DictUpdate(row, [parent_id |-> None, parent_title |-> None])

\* UsersStream.post_process
UsersStream_post_process(row) ==
    IF "_links" \in DOMAIN row /\ Truthy(row["_links"])
    THEN DictUpdate(row, "avatar_url" :>
             DictGet(DictGet(row["_links"].v, "avatar", JObj(EmptyDict)).v,
                     "href", None))
    ELSE DictUpdate(row, "avatar_url" :> None)

\* row.update(flatten_link(links, k)) for each key k of keys, in order
RECURSIVE FlattenAll(_, _, _)
FlattenAll(row, links, keys) ==
    IF keys = <<>> THEN row
    ELSE FlattenAll(DictUpdate(row, flatten_link(links, Head(keys), TRUE)),
                    links, Tail(keys))

\* WorkPackagesStream.post_process
WorkPackagesStream_post_process(row) ==
    IF "_links" \in DOMAIN row /\ Truthy(row["_links"])
    THEN FlattenAll(row, row["_links"].v,
             <<"type", "status", "priority", "assignee", "project", "author",
               "responsible", "version", "parent">>)
    ELSE row

\* VersionsStream.post_process
VersionsStream_post_process(row) ==
    IF "_links" \in DOMAIN row /\ Truthy(row["_links"])
    THEN LET defining_project ==
                 flatten_link(row["_links"].v, "definingProject", TRUE)
         IN DictUpdate(row,
                [project_id |-> DictGet(defining_project,
                                        "definingProject_id", None),
                 project_title |-> DictGet(defining_project,
                                           "definingProject_title", None)])
    ELSE DictUpdate(row, [project_id |-> None, project_title |-> None])

\* TimeEntriesStream.post_process
TimeEntriesStream_post_process(row) ==
    IF "_links" \in DOMAIN row /\ Truthy(row["_links"])
    THEN LET links == row["_links"].v
             wp == flatten_link(links, "workPackage", TRUE)
             r1 == DictUpdate(row, flatten_link(links, "project", TRUE))
             r2 == DictUpdate(r1,
                       [work_package_id |-> DictGet(wp, "workPackage_id", None),
                        work_package_title |->
                            DictGet(wp, "workPackage_title", None)])
         IN FlattenAll(r2, links, <<"user", "activity">>)
    ELSE row

\* RelationsStream.post_process
RelationsStream_post_process(row) ==
    IF "_links" \in DOMAIN row /\ Truthy(row["_links"])
    THEN LET links == row["_links"].v
         IN DictUpdate(row,
                [from_work_package_id |-> extract_id_from_href(
                     DictGet(DictGet(links, "from", JObj(EmptyDict)).v,
                             "href", None)),
                 to_work_package_id |-> extract_id_from_href(
                     DictGet(DictGet(links, "to", JObj(EmptyDict)).v,
                             "href", None))])
    ELSE DictUpdate(row, [from_work_package_id |-> None,
                          to_work_package_id |-> None])

\* the comprehension over the roles that have both an href and a title
RECURSIVE RolesComprehension_needs_both(_, _)
RolesComprehension_needs_both(roles, key) ==
    IF roles = <<>> THEN <<>>
    ELSE LET x == DictGet(Head(roles).v, key, None)
             both == /\ Truthy(DictGet(Head(roles).v, "href", None))
                     /\ Truthy(DictGet(Head(roles).v, "title", None))
         IN (IF both
             THEN <<IF key = "href" THEN extract_id_from_href(x) ELSE x>>
             ELSE <<>>) \o RolesComprehension_needs_both(Tail(roles), key)

\* [f(r) for r in roles if r.get(key)] with f the id of an href or the title
RECURSIVE RolesComprehension(_, _)
RolesComprehension(roles, key) ==
    IF roles = <<>> THEN <<>>
    ELSE LET x == DictGet(Head(roles).v, key, None)
         IN (IF Truthy(x)
             THEN <<IF key = "href" THEN extract_id_from_href(x) ELSE x>>
             ELSE <<>>) \o RolesComprehension(Tail(roles), key)

\* MembershipsStream.post_process
MembershipsStream_post_process(row) ==
    IF "_links" \in DOMAIN row /\ Truthy(row["_links"])
    THEN LET links == row["_links"].v
             roles == DictGet(links, "roles", JList(<<>>))
         IN DictUpdate(FlattenAll(row, links, <<"project", "principal">>),
                [role_ids |-> JList(RolesComprehension(roles.v, "href")),
                 role_titles |-> JList(RolesComprehension(roles.v, "title"))])
    ELSE DictUpdate(row,
             [project_id |-> None, project_title |-> None,
              principal_id |-> None, principal_title |-> None,
              role_ids |-> JList(<<>>), role_titles |-> JList(<<>>)])

\* post_process of the stream's class; a class that defines none returns
\* the row as it is
post_process(stream, row) ==
    CASE stream = "projects" -> ProjectsStream_post_process(row)
      [] stream = "work_packages" -> WorkPackagesStream_post_process(row)
      [] stream = "users" -> UsersStream_post_process(row)
      [] stream = "versions" -> VersionsStream_post_process(row)
      [] stream = "time_entries" -> TimeEntriesStream_post_process(row)
      [] stream = "relations" -> RelationsStream_post_process(row)
      [] stream = "memberships" -> MembershipsStream_post_process(row)
      [] OTHER -> row

\* the path each top-level stream class declares: "/" and the stream's name
path(stream) == <<"/", stream>>

\* the first request of each top-level stream of a tap with this config and
\* no bookmark
StreamRequests(config) ==
    IF config.t # "obj" THEN <<>>
    ELSE [i \in 1..Len(StreamNames) |->
             [path |-> path(StreamNames[i]),
              params |-> get_url_params(StreamNames[i], config.v, EmptyDict,
                                        None)]]

\* TapOpenProject.discover_streams: the stream classes in the order listed
discover_streams ==
    <<"projects", "work_packages", "statuses", "types", "priorities",
      "roles", "users", "versions", "time_entries", "relations",
      "memberships", "attachments">>

\* every stream class is its own parent
parent_stream_type_none(stream) == "none"

\* the parent_stream_type a stream class declares, "none" when it has none
parent_stream_type(stream) ==
    IF stream = "attachments" THEN "work_packages" ELSE "none"

\* the streams whose parent is the stream, in the order listed
child_streams(stream) ==
    SelectSeq(discover_streams, LAMBDA s : parent_stream_type(s) = stream)

\* the properties the schema of each stream class declares
schema_properties(stream) ==
    CASE stream = "projects" ->
             {"id", "_type", "identifier", "name", "active", "public",
              "description", "status", "statusExplanation", "createdAt",
              "updatedAt", "_links", "parent_id", "parent_title"}
      [] stream = "work_packages" ->
             {"id", "_type", "lockVersion", "subject", "description",
              "scheduleManually", "startDate", "dueDate",
              "derivedStartDate", "derivedDueDate", "estimatedTime",
              "derivedEstimatedTime", "spentTime", "percentageDone",
              "createdAt", "updatedAt", "position", "readonly", "_links",
              "type_title", "status_title", "priority_title",
              "assignee_title", "project_title", "author_title",
              "responsible_title", "version_title", "type_id", "status_id",
              "priority_id", "assignee_id", "project_id", "author_id",
              "responsible_id", "version_id", "parent_id"}
      [] stream = "statuses" ->
             {"id", "_type", "name", "color", "isClosed", "isDefault",
              "isReadonly", "defaultDoneRatio", "position", "_links"}
      [] stream = "types" ->
             {"id", "_type", "name", "color", "position", "isDefault",
              "isMilestone", "createdAt", "updatedAt", "_links"}
      [] stream = "priorities" ->
             {"id", "_type", "name", "color", "position", "isDefault",
              "isActive", "_links"}
      [] stream = "roles" ->
             {"id", "_type", "name", "_links"}
      [] stream = "users" ->
             {"id", "_type", "login", "firstName", "lastName", "name",
              "email", "admin", "status", "language", "createdAt",
              "updatedAt", "_links", "avatar_url"}
      [] stream = "versions" ->
             {"id", "_type", "name", "description", "startDate", "endDate",
              "status", "sharing", "createdAt", "updatedAt", "_links",
              "project_id", "project_title"}
      [] stream = "time_entries" ->
             {"id", "_type", "comment", "spentOn", "hours", "ongoing",
              "createdAt", "updatedAt", "_links", "project_id",
              "project_title", "work_package_id", "work_package_title",
              "user_id", "user_title", "activity_id", "activity_title"}
      [] stream = "relations" ->
             {"id", "_type", "name", "type", "reverseType", "description",
              "delay", "_links", "from_work_package_id",
              "to_work_package_id"}
      [] stream = "memberships" ->
             {"id", "_type", "createdAt", "updatedAt", "_links",
              "project_id", "project_title", "principal_id",
              "principal_title", "role_ids", "role_titles"}
      [] stream = "attachments" ->
             {"id", "_type", "fileName", "fileSize", "description",
              "contentType", "digest", "createdAt", "_links", "author_id",
              "author_title", "work_package_id", "work_package_title",
              "download_url"}

\* /work_packages/
Path_work_packages == <<"/", "w", "o", "r", "k", "_", "p", "a", "c", "k", "a",
                        "g", "e", "s", "/">>

\* /attachments
Path_attachments == <<"/", "a", "t", "t", "a", "c", "h", "m", "e", "n", "t",
                      "s">>

\* WorkPackagesStream.get_child_context: the context, or the KeyError of
\* record["id"]
WorkPackagesStream_get_child_context(record) ==
    IF "id" \notin DOMAIN record THEN Raise("KeyError")
    ELSE JObj([work_package_id |-> record["id"],
               work_package_title |-> DictGet(record, "subject", None)])

\* AttachmentsStream.get_url_params
AttachmentsStream_get_url_params(context, next_page_token) ==
    IF Truthy(next_page_token) THEN JObj("offset" :> next_page_token)
    ELSE JObj(EmptyDict)

\* post_process of attachments that leaves the context out
AttachmentsStream_post_process_no_context(row, context) ==
    LET r1 == DictUpdate(row, [work_package_id |-> None,
                               work_package_title |-> None])
    IN IF "_links" \in DOMAIN row /\ Truthy(row["_links"])
       THEN DictUpdate(
                DictUpdate(r1, flatten_link(row["_links"].v, "author", TRUE)),
                "download_url" :>
                    DictGet(DictGet(row["_links"].v, "downloadLocation",
                                    JObj(EmptyDict)).v, "href", None))
       ELSE DictUpdate(r1, [author_id |-> None, author_title |-> None,
                            download_url |-> None])

\* AttachmentsStream.post_process
AttachmentsStream_post_process(row, context) ==
    LET r1 == IF Truthy(context)
              THEN DictUpdate(row,
                       [work_package_id |->
                            DictGet(context.v, "work_package_id", None),
                        work_package_title |->
                            DictGet(context.v, "work_package_title", None)])
              ELSE DictUpdate(row, [work_package_id |-> None,
                                    work_package_title |-> None])
    IN IF "_links" \in DOMAIN row /\ Truthy(row["_links"])
       THEN DictUpdate(
                DictUpdate(r1, flatten_link(row["_links"].v, "author", TRUE)),
                "download_url" :>
                    DictGet(DictGet(row["_links"].v, "downloadLocation",
                                    JObj(EmptyDict)).v, "href", None))
       ELSE DictUpdate(r1, [author_id |-> None, author_title |-> None,
                            download_url |-> None])

\* ------------------------------------------------------------------ state

VARIABLES
    callIn,     \* the arguments of a call of a pure function
    callOut,    \* what the call returned
    callPc,     \* "start", then "extracted", "flattened" or "validated"
    config,     \* the tap's config dict
    priorState, \* the bookmarks the run was started with: stream -> value
    idx,        \* the position in StreamNames of the stream being synced
    pc,         \* the driver state of that stream
    server,     \* how the server answers that stream's requests
    token,      \* next_page_token
    attempts,   \* retries made for the current page
    requests,   \* the params of the requests issued for the stream
    response,   \* the response being processed
    emitted,    \* the messages written for the stream
    warnings,   \* warnings logged for the stream
    error,      \* the error that failed the stream
    syncIn,     \* the entry point run and its config, catalog, files, server
    syncPc,     \* the position in do_sync (or in the streams.py script)
    client,     \* the HttpClient: "none", "open" or "closed"
    selected_streams, \* do_sync's list of selected stream ids
    projects,   \* the records fetched and not yet written
    written,    \* the Singer messages written to stdout
    sent,       \* the HTTP requests sent by the client
    syncError,  \* the exception that ended the run
    orderPc,    \* the position of the run over the streams
    orderIdx,   \* the position in discover_streams of the stream reached
    parentLeft, \* records of the stream being synced not yet processed
    childDone,  \* the children of the record being processed were synced
    order,      \* the streams in the order they requested and wrote
    resolveIn,  \* the config given to the tap, its form, and the server
    resolvePc,  \* the position in TapOpenProject.__init__
    tapConfig,  \* the config the tap goes on with
    resolveOffset, \* _resolve_project_identifiers: offset, asked for next
    id_map,     \* _resolve_project_identifiers: identifier -> id
    fetched,    \* the params of the requests for the project list
    logged,     \* the levels of the messages logged
    raised,     \* the exception that left __init__
    resolutions, \* the calls of _resolve_project_identifiers
    streamRequests, \* the requests made by the streams' sync
    firstRequests   \* the path and params of each stream's first request

callVars == <<callIn, callOut, callPc>>

streamVars == <<config, priorState, idx, pc, server, token, attempts,
                requests, response, emitted, warnings, error>>

syncVars == <<syncIn, syncPc, client, selected_streams, projects, written,
              sent, syncError>>

orderVars == <<orderPc, orderIdx, parentLeft, childDone, order>>

resolveVars == <<resolveIn, resolvePc, tapConfig, resolveOffset, id_map,
                 fetched, logged, raised, resolutions, streamRequests,
                 firstRequests>>

vars == <<callVars, streamVars, syncVars, orderVars, resolveVars>>

NoServer == [kind |-> "none", total |-> 0, pageSize |-> 0, status |-> 0,
             failures |-> 0, json |-> TRUE]

NoResponse == [status_code |-> 0, is_json |-> TRUE, data |-> EmptyDict]

\* no pure function is called
CallIdle == callIn = [op |-> "none"] /\ callOut = None /\ callPc = "idle"

\* no stream is synced
StreamIdle ==
    /\ config = EmptyDict /\ priorState = EmptyDict
    /\ idx = 0 /\ pc = "idle" /\ server = NoServer /\ token = None
    /\ attempts = 0 /\ requests = <<>> /\ response = NoResponse
    /\ emitted = <<>> /\ warnings = 0 /\ error = None

\* no entry point is run
SyncIdle ==
    /\ syncIn = [entry |-> "none"] /\ syncPc = "idle" /\ client = "none"
    /\ selected_streams = <<>> /\ projects = <<>> /\ written = <<>>
    /\ sent = 0 /\ syncError = None

\* no run over the streams
OrderIdle ==
    /\ orderPc = "idle" /\ orderIdx = 0 /\ parentLeft = 0
    /\ childDone = FALSE /\ order = <<>>

\* no tap is constructed
ResolveIdle ==
    /\ resolveIn = [form |-> "none"] /\ resolvePc = "idle"
    /\ tapConfig = None /\ resolveOffset = 0 /\ id_map = EmptyDict
    /\ fetched = <<>> /\ logged = <<>> /\ raised = None
    /\ resolutions = 0 /\ streamRequests = 0 /\ firstRequests = <<>>

\* ------------------------------------------------------ pure function calls

HrefAlphabet == {"/", "1", "5", "a", "-"}

\* 2024-01-01T00:00:00Z
Date_2024_01_01_Z ==
    <<"2", "0", "2", "4", "-", "0", "1", "-", "0", "1", "T", "0", "0", ":",
      "0", "0", ":", "0", "0", "Z">>

\* 2024-12-31T23:59:59Z
Date_2024_12_31_Z ==
    <<"2", "0", "2", "4", "-", "1", "2", "-", "3", "1", "T", "2", "3", ":",
      "5", "9", ":", "5", "9", "Z">>

\* 2024-06-15T12:30:45+00:00
Date_offset ==
    <<"2", "0", "2", "4", "-", "0", "6", "-", "1", "5", "T", "1", "2", ":",
      "3", "0", ":", "4", "5", "+", "0", "0", ":", "0", "0">>

\* 2024-06-15T12:30:45
Date_naive ==
    <<"2", "0", "2", "4", "-", "0", "6", "-", "1", "5", "T", "1", "2", ":",
      "3", "0", ":", "4", "5">>

\* 2024-06-01T00:00:00Z
Date_2024_06_01_Z ==
    <<"2", "0", "2", "4", "-", "0", "6", "-", "0", "1", "T", "0", "0", ":",
      "0", "0", ":", "0", "0", "Z">>

\* 2024-02-29T00:00:00Z
Date_leap_day ==
    <<"2", "0", "2", "4", "-", "0", "2", "-", "2", "9", "T", "0", "0", ":",
      "0", "0", ":", "0", "0", "Z">>

\* not-a-date
Date_not_a_date ==
    <<"n", "o", "t", "-", "a", "-", "d", "a", "t", "e">>

\* 2024-13-01T00:00:00Z
Date_month_13 ==
    <<"2", "0", "2", "4", "-", "1", "3", "-", "0", "1", "T", "0", "0", ":",
      "0", "0", ":", "0", "0", "Z">>

\* 2024-02-30T00:00:00Z
Date_feb_30 ==
    <<"2", "0", "2", "4", "-", "0", "2", "-", "3", "0", "T", "0", "0", ":",
      "0", "0", ":", "0", "0", "Z">>

\* 2023-02-29T00:00:00Z
Date_feb_29_2023 ==
    <<"2", "0", "2", "3", "-", "0", "2", "-", "2", "9", "T", "0", "0", ":",
      "0", "0", ":", "0", "0", "Z">>

\* '; DROP TABLE projects; --
Date_sql ==
    <<"'", ";", " ", "D", "R", "O", "P", " ", "T", "A", "B", "L", "E", " ",
      "p", "r", "o", "j", "e", "c", "t", "s", ";", " ", "-", "-">>

\* ../../etc/passwd
Date_path ==
    <<".", ".", "/", ".", ".", "/", "e", "t", "c", "/", "p", "a", "s", "s",
      "w", "d">>

\* <script>alert('xss')</script>
Date_script ==
    <<"<", "s", "c", "r", "i", "p", "t", ">", "a", "l", "e", "r", "t", "(",
      "'", "x", "s", "s", "'", ")", "<", "/", "s", "c", "r", "i", "p", "t",
      ">">>

\* 2024-06-15 12:30:45
Date_space_sep ==
    <<"2", "0", "2", "4", "-", "0", "6", "-", "1", "5", " ", "1", "2", ":",
      "3", "0", ":", "4", "5">>

\* 2024-06-15"12:30:45
Date_quote_sep ==
    <<"2", "0", "2", "4", "-", "0", "6", "-", "1", "5", "\"", "1", "2",
      ":", "3", "0", ":", "4", "5">>

\* 2024-06-15
Date_only ==
    <<"2", "0", "2", "4", "-", "0", "6", "-", "1", "5">>

\* /api/v3/projects/5
Href_projects_5 ==
    <<"/", "a", "p", "i", "/", "v", "3", "/", "p", "r", "o", "j", "e", "c",
      "t", "s", "/", "5">>

\* /api/v3/users/123/
Href_users_123_slash ==
    <<"/", "a", "p", "i", "/", "v", "3", "/", "u", "s", "e", "r", "s", "/",
      "1", "2", "3", "/">>

\* /api/v3/statuses/42
Href_statuses_42 ==
    <<"/", "a", "p", "i", "/", "v", "3", "/", "s", "t", "a", "t", "u", "s",
      "e", "s", "/", "4", "2">>

\* /api/v3/invalid
Href_invalid ==
    <<"/", "a", "p", "i", "/", "v", "3", "/", "i", "n", "v", "a", "l", "i",
      "d">>

\* every str over HrefAlphabet of at most MaxHrefLen characters
ShortHrefs == UNION {[1..n -> HrefAlphabet] : n \in 0..MaxHrefLen}

HrefInputs ==
    {None} \cup {JStr(s) : s \in ShortHrefs}
        \cup {JStr(Href_projects_5), JStr(Href_users_123_slash),
              JStr(Href_statuses_42), JStr(Href_invalid)}

Title_Parent == <<"P", "a", "r", "e", "n", "t">>

\* a link object {href?, title?}: a key is left out when its value is Absent
LinkObj(href, title) ==
    JObj([k \in ({"href" : x \in {href} \ {Absent}}
                    \cup {"title" : x \in {title} \ {Absent}})
             |-> IF k = "href" THEN href ELSE title])

LinkHrefs ==
    {Absent, None, JStr(<<>>), JStr(Href_projects_5),
     JStr(Href_users_123_slash), JStr(Href_invalid)}

LinkTitles == {Absent, None, JStr(Title_Parent), JStr(<<>>)}

LinkObjs == {LinkObj(h, ti) : h \in LinkHrefs, ti \in LinkTitles} \cup {None}

LinkKeys == {"parent", "status"}

\* the _links objects drawn: no link, or one link under one key
LinksInputs ==
    {EmptyDict} \cup {(k :> o) : k \in LinkKeys, o \in LinkObjs}

\* https://op.io
Base_host ==
    <<"h", "t", "t", "p", "s", ":", "/", "/", "o", "p", ".", "i", "o">>

\* https://op.io/api/v3
Base_api ==
    <<"h", "t", "t", "p", "s", ":", "/", "/", "o", "p", ".", "i", "o", "/",
      "a", "p", "i", "/", "v", "3">>

\* http://op.io/api/v3/
Base_api_slash ==
    <<"h", "t", "t", "p", ":", "/", "/", "o", "p", ".", "i", "o", "/", "a",
      "p", "i", "/", "v", "3", "/">>

\* projects
Ep_projects ==
    <<"p", "r", "o", "j", "e", "c", "t", "s">>

\* /projects
Ep_slash_projects ==
    <<"/", "p", "r", "o", "j", "e", "c", "t", "s">>

\* //evil.io/x
Ep_net_path ==
    <<"/", "/", "e", "v", "i", "l", ".", "i", "o", "/", "x">>

\* ../admin
Ep_up ==
    <<".", ".", "/", "a", "d", "m", "i", "n">>

\* projects/../../x
Ep_up_inside ==
    <<"p", "r", "o", "j", "e", "c", "t", "s", "/", ".", ".", "/", ".", ".",
      "/", "x">>

\* https://evil.io/x
Ep_other_host ==
    <<"h", "t", "t", "p", "s", ":", "/", "/", "e", "v", "i", "l", ".", "i",
      "o", "/", "x">>

\* https://op.io.evil.io/x
Ep_host_suffix ==
    <<"h", "t", "t", "p", "s", ":", "/", "/", "o", "p", ".", "i", "o", ".",
      "e", "v", "i", "l", ".", "i", "o", "/", "x">>

\* https://op.io/api/v3x/y
Ep_path_suffix ==
    <<"h", "t", "t", "p", "s", ":", "/", "/", "o", "p", ".", "i", "o", "/",
      "a", "p", "i", "/", "v", "3", "x", "/", "y">>

\* https://op.io/api/v3/projects
Ep_same_base ==
    <<"h", "t", "t", "p", "s", ":", "/", "/", "o", "p", ".", "i", "o", "/",
      "a", "p", "i", "/", "v", "3", "/", "p", "r", "o", "j", "e", "c", "t",
      "s">>

\* http://op.io.evil.io/x
Ep_http_suffix ==
    <<"h", "t", "t", "p", ":", "/", "/", "o", "p", ".", "i", "o", ".", "e",
      "v", "i", "l", ".", "i", "o", "/", "x">>

\* https:projects
Ep_scheme_only ==
    <<"h", "t", "t", "p", "s", ":", "p", "r", "o", "j", "e", "c", "t", "s">>

\* https:/x
Ep_scheme_root ==
    <<"h", "t", "t", "p", "s", ":", "/", "x">>

\* a//b
Ep_double_slash ==
    <<"a", "/", "/", "b">>

EndpointAlphabet == {"/", ".", ":", "a"}

\* every str over EndpointAlphabet up to MaxEndpointLen
ShortEndpoints ==
    UNION {[1..n -> EndpointAlphabet] : n \in 0..MaxEndpointLen}

EndpointInputs ==
    ShortEndpoints \cup
    {Ep_projects, Ep_slash_projects, Ep_net_path, Ep_up, Ep_up_inside,
     Ep_other_host, Ep_host_suffix, Ep_path_suffix, Ep_same_base,
     Ep_http_suffix, Ep_scheme_only, Ep_scheme_root, Ep_double_slash}

BaseUrlInputs == {Base_host, Base_api, Base_api_slash}

\* the date strs drawn: ISO 8601 datetimes and strs that are none
DateInputs ==
    {JStr(d) : d \in {<<>>, Date_2024_01_01_Z, Date_2024_12_31_Z, Date_offset,
                      Date_naive, Date_2024_06_01_Z, Date_leap_day,
                      Date_not_a_date, Date_month_13, Date_feb_30,
                      Date_feb_29_2023, Date_sql, Date_path, Date_script,
                      Date_space_sep, Date_quote_sep, Date_only}}

\* a link with an href and a title
Link_full == LinkObj(JStr(Href_projects_5), JStr(Title_Parent))

\* the keys of _links that the post_process of a stream reads
StreamLinkKeys(stream) ==
    CASE stream = "projects" -> {"parent"}
      [] stream = "work_packages" ->
             {"type", "status", "priority", "assignee", "project", "author",
              "responsible", "version", "parent"}
      [] stream = "users" -> {"avatar"}
      [] stream = "versions" -> {"definingProject"}
      [] stream = "time_entries" ->
             {"project", "workPackage", "user", "activity"}
      [] stream = "relations" -> {"from", "to"}
      [] stream = "memberships" -> {"project", "principal"}
      [] stream = "attachments" -> {"author", "downloadLocation"}
      [] OTHER -> {}

\* the elements of a roles link: with or without href, with or without title
RoleElements ==
    {LinkObj(h, ti) :
        h \in {Absent, JStr(Href_projects_5), JStr(Href_statuses_42),
               JStr(Href_invalid)},
        ti \in {Absent, JStr(Title_Parent), JStr(Date_only)}}

RoleLists == UNION {[1..n -> RoleElements] : n \in 0..MaxRoles}

\* the raw records drawn for a stream: without _links, with an empty one,
\* with none of the links read, with all of them; for memberships also
\* with a roles link
RowsOf(stream) ==
    {[id |-> JInt(1)],
     [id |-> JInt(1), _links |-> JObj(EmptyDict)],
     [id |-> JInt(1), _links |-> JObj([self |-> Link_full])],
     [id |-> JInt(1),
      _links |-> JObj([k \in StreamLinkKeys(stream) \cup {"self"}
                          |-> Link_full])]}
    \cup (IF stream = "memberships"
          THEN {[id |-> JInt(1), _links |-> JObj([roles |-> JList(rs)])] :
                    rs \in RoleLists}
          ELSE {})

\* the context of a child stream: none, or the one of a work package
Contexts ==
    {None, JObj([work_package_id |-> JInt(7),
                 work_package_title |-> JStr(Title_Parent)])}

PostProcessInputs ==
    UNION {{[op |-> "post_process", stream |-> discover_streams[i],
             row |-> r, context |-> c] :
               r \in RowsOf(discover_streams[i]),
               c \in (IF discover_streams[i] = "attachments"
                      THEN Contexts ELSE {None})} :
              i \in 1..Len(discover_streams)}

\* the work package records a child sync is started for
ParentRecords ==
    {[id |-> JInt(1)],
     [id |-> JInt(12), subject |-> JStr(Title_Parent)],
     [subject |-> JStr(Title_Parent)]}

\* a page of a collection: a key whose value is Absent is left out
Page(total, page_offset, pageSize, count, linked) ==
    LET all == [total |-> total, offset |-> page_offset,
                pageSize |-> pageSize,
                _embedded |-> JObj([elements |->
                    JList([i \in 1..count |-> JObj([id |-> JInt(i)])])]),
                _links |-> IF linked
                           THEN JObj([nextByOffset |-> JObj(EmptyDict)])
                           ELSE Absent]
    IN [k \in {x \in DOMAIN all : all[x] # Absent} |-> all[k]]

\* the responses drawn for get_next_page_token
PageResponses ==
    {[status_code |-> 200, is_json |-> TRUE,
      data |-> Page(t, o, s, c, l)] :
        t \in {Absent} \cup {JInt(n) : n \in 0..MaxTotal},
        o \in {Absent} \cup {JInt(n) : n \in 0..MaxPageSize},
        s \in {Absent} \cup {JInt(n) : n \in 0..MaxPageSize},
        c \in 0..MaxPageSize, l \in BOOLEAN}
    \cup {[status_code |-> 200, is_json |-> FALSE, data |-> EmptyDict]}

CallInit ==
    /\ callIn \in [op : {"extract"}, href : HrefInputs]
                  \cup [op : {"flatten"}, links : LinksInputs, key : LinkKeys]
                  \cup [op : {"validate"}, date_string : DateInputs]
                  \cup [op : {"get"}, base_url : BaseUrlInputs,
                        endpoint : EndpointInputs]
                  \cup PostProcessInputs
                  \cup [op : {"sync_child"}, parent : ParentRecords,
                        config : {EmptyDict,
                                  [start_date |-> JStr(Date_2024_01_01_Z)]},
                        token : {None, JInt(MaxPageSize)},
                        row : RowsOf("attachments")]
                  \cup [op : {"next_page"}, response : PageResponses]
                  \cup [op : {"client"},
                        timeout : {None, JInt(0), JInt(1),
                                   JInt(DEFAULT_TIMEOUT)},
                        max_retries : {None} \cup
                            {JInt(n) : n \in 0..MaxRetriesBound},
                        status_code : {200, 404} \cup status_forcelist]
    /\ callOut = None
    /\ callPc = "start"
    /\ StreamIdle
    /\ SyncIdle
    /\ OrderIdle
    /\ ResolveIdle

\* one call of extract_id_from_href(href)
ExtractId ==
    /\ callPc = "start"
    /\ callIn.op = "extract"
    /\ callOut' = extract_id_from_href(callIn.href)
    /\ callPc' = "extracted"
    /\ UNCHANGED <<callIn, streamVars, syncVars, orderVars, resolveVars>>

\* one call of flatten_link(links, key)
FlattenLink ==
    /\ callPc = "start"
    /\ callIn.op = "flatten"
    /\ callOut' = JObj(flatten_link(callIn.links, callIn.key, TRUE))
    /\ callPc' = "flattened"
    /\ UNCHANGED <<callIn, streamVars, syncVars, orderVars, resolveVars>>

\* one call of _validate_datetime(date_string)
ValidateDatetime ==
    /\ callPc = "start"
    /\ callIn.op = "validate"
    /\ callOut' = validate_datetime(callIn.date_string)
    /\ callPc' = "validated"
    /\ UNCHANGED <<callIn, streamVars, syncVars, orderVars, resolveVars>>

\* one call of HttpClient(base_url).get(endpoint), up to the request
HttpGet ==
    /\ callPc = "start"
    /\ callIn.op = "get"
    /\ callOut' = HttpClient_get_url(HttpClient_base_url(callIn.base_url),
                                     callIn.endpoint)
    /\ callPc' = "requested"
    /\ UNCHANGED <<callIn, streamVars, syncVars, orderVars, resolveVars>>

\* one call of post_process(row, context) of a stream
PostProcess ==
    /\ callPc = "start"
    /\ callIn.op = "post_process"
    /\ callOut' = JObj(IF callIn.stream = "attachments"
                       THEN AttachmentsStream_post_process(callIn.row,
                                                           callIn.context)
                       ELSE post_process(callIn.stream, callIn.row))
    /\ callPc' = "processed"
    /\ UNCHANGED <<callIn, streamVars, syncVars, orderVars, resolveVars>>

\* the sync of attachments for one work package record: the context of the
\* record, the path and the params of the request, and the record written
\* for a row of the page
SyncAttachments ==
    /\ callPc = "start"
    /\ callIn.op = "sync_child"
    /\ \E context \in {WorkPackagesStream_get_child_context(callIn.parent)} :
          callOut' =
              IF context.t = "raise" THEN context
              ELSE [t |-> "request",
                    path |-> Path_work_packages
                                 \o str(context.v["work_package_id"].v)
                                 \o Path_attachments,
                    params |-> AttachmentsStream_get_url_params(
                                   context, callIn.token),
                    record |-> AttachmentsStream_post_process(
                                   callIn.row, context)]
    /\ callPc' = "attached"
    /\ UNCHANGED <<callIn, streamVars, syncVars, orderVars, resolveVars>>

\* one call of get_next_page_token(response, previous_token)
NextPageToken ==
    /\ callPc = "start"
    /\ callIn.op = "next_page"
    /\ callOut' = get_next_page_token(callIn.response, None)
    /\ callPc' = "paged"
    /\ UNCHANGED <<callIn, streamVars, syncVars, orderVars, resolveVars>>

\* HttpClient(timeout=..., max_retries=...) and one get against a server
\* that answers every request with the same status
ClientGet ==
    /\ callPc = "start"
    /\ callIn.op = "client"
    /\ callOut' =
           [t |-> "client",
            timeout |-> HttpClient_timeout(callIn.timeout),
            max_retries |-> HttpClient_max_retries(callIn.max_retries),
            attempts |-> session_get_attempts(
                             HttpClient_max_retries(callIn.max_retries),
                             callIn.status_code),
            raised |-> raises_for_status(callIn.status_code)]
    /\ callPc' = "answered"
    /\ UNCHANGED <<callIn, streamVars, syncVars, orderVars, resolveVars>>

CallNext ==
    \/ ExtractId
    \/ FlattenLink
    \/ ValidateDatetime
    \/ HttpGet
    \/ PostProcess
    \/ SyncAttachments
    \/ NextPageToken
    \/ ClientGet

SpecCalls == CallInit /\ [][CallNext]_vars

\* ------------------------------------------------------------ stream runs

\* Test Project
Title_Test_Project ==
    <<"T", "e", "s", "t", " ", "P", "r", "o", "j", "e", "c", "t">>

\* the start_date values drawn: none, the empty str, an ISO 8601 datetime
\* and strs that are none
StartDates ==
    {Absent, JStr(<<>>), JStr(Date_2024_01_01_Z), JStr(Date_not_a_date),
     JStr(Date_quote_sep)}

\* a config dict: a key whose value is Absent is left out
Config(start_date, max_retries) ==
    [k \in ({"start_date" : x \in {start_date} \ {Absent}} \cup {"max_retries"})
        |-> IF k = "start_date" THEN start_date ELSE JInt(max_retries)]

Configs == {Config(d, n) : d \in StartDates, n \in 0..MaxRetriesBound}

\* the bookmarks drawn: none, one for projects, one for every stream that
\* declares a replication key
PriorStates ==
    {EmptyDict,
     "projects" :> JStr(Date_2024_06_01_Z),
     [st \in {"projects", "work_packages", "types", "users", "versions",
              "time_entries", "memberships"} |-> JStr(Date_2024_06_01_Z)]}

ErrorStatuses == {400, 403, 404, 429, 500, 501, 502, 503, 504}

\* a server that pages total records by pageSize, echoes the offset asked
\* for and links nextByOffset on every page
RegularServers ==
    {[kind |-> "regular", total |-> tp[1], pageSize |-> tp[2], status |-> 200,
      failures |-> 0, json |-> TRUE] :
        tp \in ((0..MaxTotal) \X (1..MaxPageSize)) \cup {<<250, 100>>}}

\* a server that answers the first `failures` requests with an error status
\* (the body JSON or not) and then pages two records by one
FlakyServers ==
    {[kind |-> "flaky", total |-> 2, pageSize |-> 1, status |-> st,
      failures |-> n, json |-> j] :
        st \in ErrorStatuses, n \in {1, MaxRetriesBound + 1}, j \in BOOLEAN}

\* the one-page fixture {"_embedded": {"elements": [...]}, "total": 1}
FixtureServer ==
    [kind |-> "fixture", total |-> 1, pageSize |-> 1, status |-> 200,
     failures |-> 0, json |-> TRUE]

\* a server whose 200 body is no JSON
MalformedServer ==
    [kind |-> "malformed", total |-> 0, pageSize |-> 0, status |-> 200,
     failures |-> 0, json |-> FALSE]

\* a server that pages like a regular one but links no nextByOffset
UnlinkedServers ==
    {[kind |-> "unlinked", total |-> t, pageSize |-> s, status |-> 200,
      failures |-> 0, json |-> TRUE] :
        t \in {0, 2, MaxTotal}, s \in 1..MaxPageSize}

ServerCfgs ==
    RegularServers \cup FlakyServers \cup UnlinkedServers
        \cup {FixtureServer, MalformedServer}

FixtureRecord ==
    [id |-> JInt(1), name |-> JStr(Title_Test_Project),
     _links |-> JObj([parent |-> JObj(EmptyDict)])]

FixtureBody ==
    [_embedded |-> JObj([elements |-> JList(<<JObj(FixtureRecord)>>)]),
     total |-> JInt(1)]

ErrorBody == [_type |-> JStr(<<"E", "r", "r", "o", "r">>)]

\* the page of a paging server at an offset
PageBody(srv, offset) ==
    LET last == IF offset + srv.pageSize < srv.total
                THEN offset + srv.pageSize ELSE srv.total
        count == IF last > offset THEN last - offset ELSE 0
    IN [_links |-> JObj([nextByOffset |-> JObj(EmptyDict)]),
        total |-> JInt(srv.total),
        pageSize |-> JInt(srv.pageSize),
        offset |-> JInt(offset),
        _embedded |-> JObj([elements |->
            JList([i \in 1..count |-> JObj([id |-> JInt(offset + i)])])])]

\* the server's answer to the n-th request of the stream
Respond(srv, params, n) ==
    LET offset == IF "offset" \in DOMAIN params THEN params["offset"].v ELSE 0
    IN IF srv.kind = "flaky" /\ n <= srv.failures
       THEN [status_code |-> srv.status, is_json |-> srv.json,
             data |-> IF srv.json THEN ErrorBody ELSE EmptyDict]
       ELSE IF srv.kind = "malformed"
       THEN [status_code |-> 200, is_json |-> FALSE, data |-> EmptyDict]
       ELSE IF srv.kind = "fixture"
       THEN [status_code |-> 200, is_json |-> TRUE, data |-> FixtureBody]
       ELSE IF srv.kind = "unlinked"
       THEN [status_code |-> 200, is_json |-> TRUE,
             data |-> [k \in DOMAIN PageBody(srv, offset) \ {"_links"} |->
                          PageBody(srv, offset)[k]]]
       ELSE [status_code |-> 200, is_json |-> TRUE,
             data |-> PageBody(srv, offset)]

Stream == StreamNames[idx]

SchemaMessage(stream) == [type |-> "SCHEMA", stream |-> stream, record |-> None]
RecordMessage(stream, row) == [type |-> "RECORD", stream |-> stream, record |-> row]
StateMessage(stream) == [type |-> "STATE", stream |-> stream, record |-> None]

StreamInit ==
    /\ config \in Configs
    /\ priorState \in PriorStates
    /\ idx = 1
    /\ pc = "Init"
    /\ server = NoServer
    /\ token = None
    /\ attempts = 0
    /\ requests = <<>>
    /\ response = NoResponse
    /\ emitted = <<>>
    /\ warnings = 0
    /\ error = None
    /\ CallIdle
    /\ SyncIdle
    /\ OrderIdle
    /\ ResolveIdle

\* Init: the stream's schema is written and its first request is prepared
\* against some server
StartStream ==
    /\ pc = "Init"
    /\ \E srv \in ServerCfgs : server' = srv
    /\ emitted' = <<SchemaMessage(Stream)>>
    /\ pc' = "Requesting"
    /\ UNCHANGED <<config, priorState, idx, token, attempts, requests,
                   response, warnings, error, callVars, syncVars, orderVars, resolveVars>>

\* Requesting: get_url_params gives the params and the request is sent
SendRequest ==
    /\ pc = "Requesting"
    /\ LET params == get_url_params(Stream, config, priorState, token)
       IN /\ params.t # "raise"
          /\ requests' = Append(requests, params)
          /\ response' = Respond(server, params.v, Len(requests) + 1)
    /\ pc' = "PageReceived"
    /\ UNCHANGED <<config, priorState, idx, server, token, attempts, emitted,
                   warnings, error, callVars, syncVars, orderVars, resolveVars>>

\* Requesting: get_url_params raises and no request is sent
RejectRequest ==
    /\ pc = "Requesting"
    /\ LET params == get_url_params(Stream, config, priorState, token)
       IN /\ params.t = "raise"
          /\ error' = params
    /\ pc' = "Failed"
    /\ UNCHANGED <<config, priorState, idx, server, token, attempts, requests,
                   response, emitted, warnings, callVars, syncVars, orderVars, resolveVars>>

\* PageReceived: parse_response raises a retriable error and a retry is left
RetryPage ==
    /\ pc = "PageReceived"
    /\ parse_response(Stream, response) = Raise("RetriableAPIError")
    /\ attempts < config["max_retries"].v
    /\ attempts' = attempts + 1
    /\ pc' = "Requesting"
    /\ UNCHANGED <<config, priorState, idx, server, token, requests, response,
                   emitted, warnings, error, callVars, syncVars, orderVars, resolveVars>>

\* PageReceived: parse_response raises a fatal error, or a retriable one
\* with no retry left
FailPage ==
    /\ pc = "PageReceived"
    /\ LET out == parse_response(Stream, response)
       IN /\ out.t = "raise"
          /\ out = Raise("RetriableAPIError") =>
                 attempts >= config["max_retries"].v
          /\ error' = out
    /\ pc' = "Failed"
    /\ UNCHANGED <<config, priorState, idx, server, token, attempts, requests,
                   response, emitted, warnings, callVars, syncVars, orderVars, resolveVars>>

\* the RECORD messages of a page: post_process applied to each element
PageRecords(stream, elements) ==
    [i \in 1..Len(elements) |->
        RecordMessage(stream, JObj(post_process(stream, elements[i].v)))]

\* PageReceived: the page's records are emitted and the next cursor computed
ReceivePage ==
    /\ pc = "PageReceived"
    /\ LET out == parse_response(Stream, response)
           next == get_next_page_token(response, token)
           records == emitted \o PageRecords(Stream, out.v)
       IN /\ out.t # "raise"
          /\ warnings' = warnings + parse_response_warnings(Stream, response)
          /\ IF next.t = "raise"
             THEN /\ pc' = "Failed"
                  /\ error' = next
                  /\ emitted' = records
                  /\ token' = token
             ELSE IF Truthy(next)
             THEN /\ pc' = "Requesting"
                  /\ token' = next
                  /\ emitted' = records
                  /\ error' = error
             ELSE /\ pc' = "Done"
                  /\ token' = token
                  /\ emitted' = Append(records, StateMessage(Stream))
                  /\ error' = error
    /\ attempts' = 0
    /\ UNCHANGED <<config, priorState, idx, server, requests, response,
                   callVars, syncVars, orderVars, resolveVars>>

\* Done: the run goes on with the next stream
NextStream ==
    /\ pc = "Done"
    /\ idx < Len(StreamNames)
    /\ idx' = idx + 1
    /\ pc' = "Init"
    /\ server' = NoServer
    /\ token' = None
    /\ attempts' = 0
    /\ requests' = <<>>
    /\ response' = NoResponse
    /\ emitted' = <<>>
    /\ warnings' = 0
    /\ UNCHANGED <<config, priorState, error, callVars, syncVars, orderVars, resolveVars>>

Next ==
    \/ StartStream
    \/ SendRequest
    \/ RejectRequest
    \/ RetryPage
    \/ FailPage
    \/ ReceivePage
    \/ NextStream

Spec == StreamInit /\ [][Next]_vars

\* ------------------------------------------------- run_with_config.do_sync

\* k
Key_k ==
    <<"k">>

\* YOUR_API_KEY_HERE
Key_placeholder ==
    <<"Y", "O", "U", "R", "_", "A", "P", "I", "_", "K", "E", "Y", "_", "H",
      "E", "R", "E">>

\*  
Key_blank ==
    <<" ">>

\* ftp://op.io
Url_ftp ==
    <<"f", "t", "p", ":", "/", "/", "o", "p", ".", "i", "o">>

\* https://
Url_no_domain ==
    <<"h", "t", "t", "p", "s", ":", "/", "/">>

\* https://community.openproject.org/api/v3
Url_default ==
    <<"h", "t", "t", "p", "s", ":", "/", "/", "c", "o", "m", "m", "u", "n",
      "i", "t", "y", ".", "o", "p", "e", "n", "p", "r", "o", "j", "e", "c",
      "t", ".", "o", "r", "g", "/", "a", "p", "i", "/", "v", "3">>

\* http://
Prefix_http ==
    <<"h", "t", "t", "p", ":", "/", "/">>

\* https://
Prefix_https ==
    <<"h", "t", "t", "p", "s", ":", "/", "/">>

\* http
Scheme_http ==
    <<"h", "t", "t", "p">>

\* https
Scheme_https ==
    <<"h", "t", "t", "p", "s">>

\* projects
Id_projects ==
    <<"p", "r", "o", "j", "e", "c", "t", "s">>

\* users
Id_users ==
    <<"u", "s", "e", "r", "s">>

\* properties
Crumb_properties ==
    <<"p", "r", "o", "p", "e", "r", "t", "i", "e", "s">>


\* validate_config that takes the placeholder for an api_key
validate_config_accepts_placeholder(cfg) ==
    IF cfg.t # "obj" THEN Raise("ValueError")
    ELSE IF "api_key" \notin DOMAIN cfg.v THEN Raise("ValueError")
    ELSE IF ~Truthy(cfg.v["api_key"]) THEN Raise("ValueError")
    ELSE IF /\ "base_url" \in DOMAIN cfg.v
            /\ ~startswith(cfg.v["base_url"].v, Prefix_http)
            /\ ~startswith(cfg.v["base_url"].v, Prefix_https)
    THEN Raise("ValueError")
    ELSE None

\* validate_config(config): None, or the ValueError it raises
validate_config(cfg) ==
    IF cfg.t # "obj" THEN Raise("ValueError")
    ELSE IF "api_key" \notin DOMAIN cfg.v THEN Raise("ValueError")
    ELSE IF ~Truthy(cfg.v["api_key"]) \/ cfg.v["api_key"] = JStr(Key_placeholder)
    THEN Raise("ValueError")
    ELSE IF /\ "base_url" \in DOMAIN cfg.v
            /\ ~startswith(cfg.v["base_url"].v, Prefix_http)
            /\ ~startswith(cfg.v["base_url"].v, Prefix_https)
    THEN Raise("ValueError")
    ELSE None

\* api_key.strip() over strs of letters and blanks
strip(s) == rstrip(lstrip(s, " "), " ")

\* HttpClient.__init__: None, or the ValueError it raises
HttpClient_init(base_url, api_key) ==
    LET parsed == urlsplit(rstrip(base_url.v, "/"), <<>>)
    IN IF /\ Truthy(base_url)
          /\ \/ parsed.scheme \notin {Scheme_https, Scheme_http}
             \/ parsed.netloc = <<>>
       THEN Raise("ValueError")
       ELSE IF api_key # None /\ api_key.t # "str" THEN Raise("ValueError")
       ELSE IF api_key # None /\ Len(strip(api_key.v)) = 0
       THEN Raise("ValueError")
       ELSE None

\* HttpClient.close
HttpClient_close(c) == "closed"

\* do_sync: the selected flag of a stream entry's metadata list
RECURSIVE is_selected(_)
is_selected(metadata) ==
    IF metadata = <<>> THEN JBool(FALSE)
    ELSE LET meta == Head(metadata).v
         IN IF DictGet(meta, "breadcrumb", None) = JList(<<>>)
            THEN DictGet(DictGet(meta, "metadata", JObj(EmptyDict)).v,
                         "selected", JBool(FALSE))
            ELSE is_selected(Tail(metadata))

\* do_sync: the loop over the catalog's stream entries
RECURSIVE select_entries(_, _)
select_entries(entries, selected) ==
    IF entries = <<>> THEN JList(selected)
    ELSE LET stream_entry == Head(entries).v
             metadata == DictGet(stream_entry, "metadata", JList(<<>>))
         IN IF ~Truthy(is_selected(metadata.v))
            THEN select_entries(Tail(entries), selected)
            ELSE IF "tap_stream_id" \notin DOMAIN stream_entry
            THEN Raise("KeyError")
            ELSE select_entries(Tail(entries),
                     Append(selected, stream_entry["tap_stream_id"]))

\* do_sync: selected_streams, or the error raised while reading the catalog
select_streams(catalog) ==
    IF ~Truthy(catalog) THEN JList(<<JStr(Id_projects)>>)
    ELSE IF catalog.t # "obj" THEN Raise("AttributeError")
    ELSE select_entries(DictGet(catalog.v, "streams", JList(<<>>)).v, <<>>)

\* x in a list
InList(x, list) == \E i \in 1..Len(list) : list[i] = x

\* HttpClient.get after the URL check: the parsed body, or the error raised
HttpClient_get(base_url, endpoint, reply) ==
    IF HttpClient_get_url(base_url, endpoint).t = "raise"
    THEN Raise("ValueError")
    ELSE IF reply.kind = "timeout" THEN Raise("Timeout")
    ELSE IF reply.kind = "connection" THEN Raise("ConnectionError")
    ELSE IF raises_for_status(reply.status_code) THEN Raise("HTTPError")
    ELSE IF ~reply.is_json THEN Raise("ValueError")
    ELSE reply.body

\* get_records that reads the collections of the top-level body
get_records_top_level(data) ==
    IF data.t = "raise" THEN data
    ELSE IF data.t # "obj" THEN Raise("ValueError")
    ELSE LET elements == DictGet(data.v, "elements", None)
             records == IF Truthy(elements) THEN elements
                        ELSE DictGet(data.v, "projects", JList(<<>>))
         IN IF records.t # "list" THEN Raise("ValueError")
            ELSE records

\* ProjectStream.get_records on what client.get("projects") gave
ProjectStream_get_records(data) ==
    IF data.t = "raise" THEN data
    ELSE IF data.t # "obj" THEN Raise("ValueError")
    ELSE LET embedded == DictGet(data.v, "_embedded", JObj(EmptyDict))
         IN IF embedded.t # "obj" THEN Raise("ValueError")
            ELSE LET elements == DictGet(embedded.v, "elements", None)
                     records == IF Truthy(elements) THEN elements
                                ELSE DictGet(embedded.v, "projects", JList(<<>>))
                 IN IF records.t # "list" THEN Raise("ValueError")
                    ELSE records

\* an exception that leaves the function without running the finally clause
raise_to_skips_finally(in_try) == "exited"

\* where an exception continues: inside do_sync's try it runs the finally
\* clause, before the try it leaves the function
raise_to(in_try) == IF in_try THEN "closing" ELSE "exited"

\* the config dicts drawn: valid ones, and ones that validate_config or
\* HttpClient reject
SyncConfigs ==
    {JObj([api_key |-> JStr(Key_k)]),
     JObj([api_key |-> JStr(Key_k), base_url |-> JStr(Base_api)]),
     JObj(EmptyDict),
     JObj([api_key |-> JStr(<<>>)]),
     JObj([api_key |-> JStr(Key_placeholder)]),
     JObj([api_key |-> JStr(Key_k), base_url |-> JStr(Url_ftp)]),
     JObj([api_key |-> JStr(Key_k), base_url |-> JStr(Url_no_domain)]),
     JObj([api_key |-> JStr(Key_blank)]),
     JObj([api_key |-> JInt(123)]),
     JList(<<>>)}

\* a metadata entry at a breadcrumb, with or without a selected flag
Meta(breadcrumb, flags) ==
    JObj([breadcrumb |-> JList(breadcrumb), metadata |-> JObj(flags)])

TopLevelMetas ==
    {Meta(<<>>, [selected |-> JBool(TRUE)]),
     Meta(<<>>, [selected |-> JBool(FALSE)]),
     Meta(<<>>, EmptyDict)}

PropertyMeta ==
    Meta(<<JStr(Crumb_properties), JStr(<<"i", "d">>)>>,
         [selected |-> JBool(TRUE)])

\* metadata lists with at most one top-level entry
MetadataLists ==
    {<<>>, <<PropertyMeta>>}
        \cup {<<m>> : m \in TopLevelMetas}
        \cup {<<PropertyMeta, m>> : m \in TopLevelMetas}

\* stream entries: one per metadata list and stream id, one without a
\* metadata key, and a selected one without a tap_stream_id
StreamEntries ==
    {JObj([tap_stream_id |-> JStr(id), metadata |-> JList(md)]) :
        id \in {Id_projects, Id_users}, md \in MetadataLists}
    \cup {JObj([tap_stream_id |-> JStr(Id_projects)]),
          JObj([metadata |-> JList(<<Meta(<<>>, [selected |-> JBool(TRUE)])>>)])}

UsersSelected ==
    JObj([tap_stream_id |-> JStr(Id_users),
          metadata |-> JList(<<Meta(<<>>, [selected |-> JBool(TRUE)])>>)])

\* no catalog, the empty catalog, and catalogs of no, one or two entries
Catalogs ==
    {None, JObj(EmptyDict), JObj([streams |-> JList(<<>>)])}
        \cup {JObj([streams |-> JList(<<e>>)]) : e \in StreamEntries}
        \cup {JObj([streams |-> JList(<<UsersSelected, e>>)]) :
                 e \in StreamEntries}

Reply(status_code, is_json, body) ==
    [kind |-> "response", status_code |-> status_code, is_json |-> is_json,
     body |-> body]

Project(n) == JObj([id |-> JInt(n)])

Embedded(f) == JObj([_embedded |-> JObj(f)])

\* what the server does with the request of client.get("projects")
SyncReplies ==
    {[kind |-> "timeout", status_code |-> 0, is_json |-> FALSE, body |-> None],
     [kind |-> "connection", status_code |-> 0, is_json |-> FALSE,
      body |-> None],
     Reply(200, FALSE, None),
     Reply(200, TRUE, JList(<<>>)),
     Reply(200, TRUE, JObj(EmptyDict)),
     Reply(200, TRUE, JObj([_embedded |-> JList(<<>>)])),
     Reply(200, TRUE, Embedded([elements |-> JStr(<<"x">>)])),
     Reply(200, TRUE, Embedded([elements |-> JList(<<>>)])),
     Reply(200, TRUE, Embedded([elements |-> JList(<<Project(1)>>)])),
     Reply(200, TRUE, Embedded([elements |-> JList(<<Project(1), Project(2)>>)])),
     Reply(200, TRUE, Embedded([projects |-> JList(<<Project(1)>>)])),
     Reply(200, TRUE, Embedded([elements |-> JList(<<>>),
                                projects |-> JList(<<Project(2)>>)])),
     Reply(200, TRUE, Embedded([elements |-> JList(<<>>),
                                projects |-> JStr(<<"x">>)])),
     Reply(200, TRUE, Embedded([projects |-> None])),
     Reply(200, TRUE, Embedded([elements |-> JInt(0)])),
     Reply(200, TRUE, Embedded([elements |-> None,
                                projects |-> JList(<<Project(2)>>)])),
     Reply(200, TRUE, JObj([_embedded |-> None])),
     Reply(200, TRUE, JObj([elements |-> JList(<<Project(1)>>)])),
     Reply(200, TRUE, JObj([elements |-> JList(<<Project(1)>>),
                            _embedded |-> JObj([elements |->
                                JList(<<Project(2), Project(1)>>)])])),
     Reply(200, TRUE, JObj(FixtureBody))}
        \cup {Reply(st, j, JObj(ErrorBody)) : st \in ErrorStatuses, j \in BOOLEAN}

\* a run of do_sync(config, state, catalog), or of the streams.py script
SyncInit ==
    /\ syncIn \in
           [entry : {"do_sync"}, config : SyncConfigs, catalog : Catalogs,
            schema_file : BOOLEAN, reply : SyncReplies]
           \cup [entry : {"streams_main"}, config : {JObj(EmptyDict)},
                 catalog : {None}, schema_file : BOOLEAN, reply : SyncReplies]
    /\ syncPc = "start"
    /\ client = "none"
    /\ selected_streams = <<>>
    /\ projects = <<>>
    /\ written = <<>>
    /\ sent = 0
    /\ syncError = None
    /\ CallIdle
    /\ StreamIdle
    /\ OrderIdle
    /\ ResolveIdle

\* the base_url do_sync hands to HttpClient
SyncBaseUrl == DictGet(syncIn.config.v, "base_url", JStr(Url_default))

\* do_sync: validate_config(config)
ValidateConfig ==
    /\ syncPc = "start"
    /\ syncIn.entry = "do_sync"
    /\ LET out == validate_config(syncIn.config)
       IN IF out.t = "raise"
          THEN syncError' = out /\ syncPc' = raise_to(FALSE)
          ELSE syncError' = syncError /\ syncPc' = "validated"
    /\ UNCHANGED <<syncIn, client, selected_streams, projects, written, sent,
                   callVars, streamVars, orderVars, resolveVars>>

\* do_sync: client = HttpClient(...)
CreateClient ==
    /\ syncPc = "validated"
    /\ LET out == HttpClient_init(SyncBaseUrl, syncIn.config.v["api_key"])
       IN IF out.t = "raise"
          THEN syncError' = out /\ syncPc' = raise_to(FALSE) /\ client' = client
          ELSE syncError' = syncError /\ syncPc' = "selecting"
               /\ client' = "open"
    /\ UNCHANGED <<syncIn, selected_streams, projects, written, sent,
                   callVars, streamVars, orderVars, resolveVars>>

\* do_sync: the streams to sync are read from the catalog
SelectStreams ==
    /\ syncPc = "selecting"
    /\ LET out == select_streams(syncIn.catalog)
       IN IF out.t = "raise"
          THEN /\ syncError' = out
               /\ syncPc' = raise_to(TRUE)
               /\ selected_streams' = selected_streams
          ELSE /\ syncError' = syncError
               /\ selected_streams' = out.v
               /\ syncPc' = IF InList(JStr(Id_projects), out.v)
                            THEN "loading" ELSE "closing"
    /\ UNCHANGED <<syncIn, client, projects, written, sent, callVars,
                   streamVars, orderVars, resolveVars>>

\* do_sync: the schema file is loaded and the SCHEMA message written
WriteSchema ==
    /\ syncPc = "loading"
    /\ IF syncIn.schema_file
       THEN /\ written' = Append(written, SchemaMessage("projects"))
            /\ syncPc' = "fetching"
            /\ syncError' = syncError
       ELSE /\ syncError' = Raise("FileNotFoundError")
            /\ syncPc' = raise_to(TRUE)
            /\ written' = written
    /\ UNCHANGED <<syncIn, client, selected_streams, projects, sent, callVars,
                   streamVars, orderVars, resolveVars>>

\* do_sync: projects = stream.get_records()
GetRecords ==
    /\ syncPc = "fetching"
    /\ sent' = sent + 1
    /\ \E data \in {HttpClient_get(HttpClient_base_url(SyncBaseUrl.v),
                                   Id_projects, syncIn.reply)} :
       \E out \in {ProjectStream_get_records(data)} :
          IF out.t = "raise"
          THEN syncError' = out /\ syncPc' = raise_to(TRUE)
               /\ projects' = projects
          ELSE syncError' = syncError /\ syncPc' = "writing"
               /\ projects' = out.v
    /\ UNCHANGED <<syncIn, client, selected_streams, written, callVars,
                   streamVars, orderVars, resolveVars>>

\* singer.write_record for the next project
WriteRecord ==
    /\ syncPc = "writing"
    /\ projects # <<>>
    /\ written' = Append(written, RecordMessage("projects", Head(projects)))
    /\ projects' = Tail(projects)
    /\ UNCHANGED <<syncIn, syncPc, client, selected_streams, sent, syncError,
                   callVars, streamVars, orderVars, resolveVars>>

\* do_sync: singer.write_state(new_state)
WriteState ==
    /\ syncPc = "writing"
    /\ syncIn.entry = "do_sync"
    /\ projects = <<>>
    /\ written' = Append(written, StateMessage("projects"))
    /\ syncPc' = "closing"
    /\ UNCHANGED <<syncIn, client, selected_streams, projects, sent,
                   syncError, callVars, streamVars, orderVars, resolveVars>>

\* the finally clause: client.close()
CloseClient ==
    /\ syncPc = "closing"
    /\ client' = HttpClient_close(client)
    /\ syncPc' = "exited"
    /\ UNCHANGED <<syncIn, selected_streams, projects, written, sent,
                   syncError, callVars, streamVars, orderVars, resolveVars>>

\* streams.py script: client = HttpClient(); stream = ProjectStream(client)
MainCreateClient ==
    /\ syncPc = "start"
    /\ syncIn.entry = "streams_main"
    /\ client' = "open"
    /\ syncPc' = "main_fetching"
    /\ UNCHANGED <<syncIn, selected_streams, projects, written, sent,
                   syncError, callVars, streamVars, orderVars, resolveVars>>

\* streams.py script: projects = stream.get_records()
MainGetRecords ==
    /\ syncPc = "main_fetching"
    /\ sent' = sent + 1
    /\ \E data \in {HttpClient_get(Url_default, Id_projects, syncIn.reply)} :
       \E out \in {ProjectStream_get_records(data)} :
          IF out.t = "raise"
          THEN syncError' = out /\ syncPc' = raise_to(TRUE)
               /\ projects' = projects
          ELSE syncError' = syncError /\ syncPc' = "main_loading"
               /\ projects' = out.v
    /\ UNCHANGED <<syncIn, client, selected_streams, written, callVars,
                   streamVars, orderVars, resolveVars>>

\* streams.py script: the schema file is loaded and the SCHEMA message written
MainWriteSchema ==
    /\ syncPc = "main_loading"
    /\ IF syncIn.schema_file
       THEN /\ written' = Append(written, SchemaMessage("projects"))
            /\ syncPc' = "writing"
            /\ syncError' = syncError
       ELSE /\ syncError' = Raise("FileNotFoundError")
            /\ syncPc' = raise_to(TRUE)
            /\ written' = written
    /\ UNCHANGED <<syncIn, client, selected_streams, projects, sent, callVars,
                   streamVars, orderVars, resolveVars>>

\* streams.py script: the loop over projects ends and the finally clause runs
MainFinish ==
    /\ syncPc = "writing"
    /\ syncIn.entry = "streams_main"
    /\ projects = <<>>
    /\ syncPc' = "closing"
    /\ UNCHANGED <<syncIn, client, selected_streams, projects, written, sent,
                   syncError, callVars, streamVars, orderVars, resolveVars>>

SyncNext ==
    \/ ValidateConfig
    \/ CreateClient
    \/ SelectStreams
    \/ WriteSchema
    \/ GetRecords
    \/ WriteRecord
    \/ WriteState
    \/ CloseClient
    \/ MainCreateClient
    \/ MainGetRecords
    \/ MainWriteSchema
    \/ MainFinish

SpecSync == SyncInit /\ [][SyncNext]_vars

\* ----------------------------------------------------- the run over streams

\* a stream requested a page, or wrote a record
Event(stream, kind) == [stream |-> stream, kind |-> kind]

\* the order with the event added; an event equal to the last one is not
\* repeated
Log(events, e) ==
    IF events # <<>> /\ events[Len(events)] = e THEN events
    ELSE Append(events, e)

\* a sync of each child stream in turn, for one record of the parent: each
\* requests its page for that record and writes what it holds
RECURSIVE SyncChildren(_, _, _)
SyncChildren(events, children, has_records) ==
    IF children = <<>> THEN events
    ELSE LET requested == Log(events, Event(Head(children), "request"))
             synced == IF has_records
                       THEN Log(requested, Event(Head(children), "record"))
                       ELSE requested
         IN SyncChildren(synced, Tail(children), has_records)

OrderInit ==
    /\ orderPc = "next"
    /\ orderIdx = 0
    /\ parentLeft = 0
    /\ childDone = FALSE
    /\ order = <<>>
    /\ CallIdle
    /\ StreamIdle
    /\ SyncIdle
    /\ ResolveIdle

\* the run passes over a stream that has a parent: its parent syncs it
SkipChildStream ==
    /\ orderPc = "next"
    /\ orderIdx < Len(discover_streams)
    /\ parent_stream_type(discover_streams[orderIdx + 1]) # "none"
    /\ orderIdx' = orderIdx + 1
    /\ UNCHANGED <<orderPc, parentLeft, childDone, order, callVars,
                   streamVars, syncVars, resolveVars>>

\* the run starts the next stream without parent: it requests its records
SyncStream ==
    /\ orderPc = "next"
    /\ orderIdx < Len(discover_streams)
    /\ parent_stream_type(discover_streams[orderIdx + 1]) = "none"
    /\ orderIdx' = orderIdx + 1
    /\ orderPc' = "records"
    /\ \E n \in 0..MaxParentRecords : parentLeft' = n
    /\ childDone' = FALSE
    /\ order' = Log(order, Event(discover_streams[orderIdx + 1], "request"))
    /\ UNCHANGED <<callVars, streamVars, syncVars, resolveVars>>

\* the children of the stream are synced for the record being processed
SyncChildStreams ==
    /\ orderPc = "records"
    /\ parentLeft > 0
    /\ ~childDone
    /\ child_streams(discover_streams[orderIdx]) # <<>>
    /\ \E has_records \in BOOLEAN :
           order' = SyncChildren(order, child_streams(discover_streams[orderIdx]),
                                 has_records)
    /\ childDone' = TRUE
    /\ UNCHANGED <<orderPc, orderIdx, parentLeft, callVars, streamVars,
                   syncVars, resolveVars>>

\* the record being processed is written
WriteStreamRecord ==
    /\ orderPc = "records"
    /\ parentLeft > 0
    /\ childDone \/ child_streams(discover_streams[orderIdx]) = <<>>
    /\ order' = Log(order, Event(discover_streams[orderIdx], "record"))
    /\ parentLeft' = parentLeft - 1
    /\ childDone' = FALSE
    /\ UNCHANGED <<orderPc, orderIdx, callVars, streamVars, syncVars, resolveVars>>

\* the stream has no record left: it is complete
FinishStream ==
    /\ orderPc = "records"
    /\ parentLeft = 0
    /\ orderPc' = "next"
    /\ UNCHANGED <<orderIdx, parentLeft, childDone, order, callVars,
                   streamVars, syncVars, resolveVars>>

OrderNext ==
    \/ SkipChildStream
    \/ SyncStream
    \/ SyncChildStreams
    \/ WriteStreamRecord
    \/ FinishStream

SpecOrder == OrderInit /\ [][OrderNext]_vars

\* ------------------------------------------ project identifier resolution

\* _resolve_project_identifiers: page_size
page_size == 100

\* the condition under which _preprocess_config resolves, without the test
\* of project_ids
should_resolve_ignores_ids(cfg) ==
    Truthy(DictGet(cfg, "project_identifiers", None))

\* _preprocess_config: the condition under which it resolves identifiers
should_resolve(cfg) ==
    /\ Truthy(DictGet(cfg, "project_identifiers", None))
    /\ ~Truthy(DictGet(cfg, "project_ids", None))

\* the request raises a requests.RequestException: a timeout, a connection
\* error, raise_for_status() on an error status, or response.json() on a
\* body that is no JSON
raises_RequestException(reply) ==
    \/ reply.kind \in {"timeout", "connection"}
    \/ raises_for_status(reply.status_code)
    \/ ~reply.is_json

\* data.get("_embedded", {}).get("elements", [])
embedded_elements(data) ==
    DictGet(DictGet(data, "_embedded", JObj(EmptyDict)).v, "elements",
            JList(<<>>)).v

\* id_map after the loop over a page's projects, or the KeyError of p["id"]
update_id_map(map, page) ==
    LET named == {i \in 1..Len(page) :
                      Truthy(DictGet(page[i].v, "identifier", None))}
        last(k) == CHOOSE i \in named :
                       /\ page[i].v["identifier"].v = k
                       /\ \A j \in named :
                              page[j].v["identifier"].v = k => j <= i
        keys == {page[i].v["identifier"].v : i \in named}
    IN IF \E i \in named : "id" \notin DOMAIN page[i].v
       THEN Raise("KeyError")
       ELSE JObj([k \in DOMAIN map \cup keys |->
                     IF k \in keys THEN page[last(k)].v["id"] ELSE map[k]])

\* [id_map[ident] for ident in identifiers if ident in id_map]
resolved_ids_of(identifiers, map) ==
    LET found == SelectSeq(identifiers, LAMBDA x : x.v \in DOMAIN map)
    IN [i \in 1..Len(found) |-> map[found[i].v]]

\* the identifiers not in id_map
missing_of(identifiers, map) ==
    SelectSeq(identifiers, LAMBDA x : x.v \notin DOMAIN map)

\* int(id) of an id of a project
int_of(x) ==
    CASE x.t = "int" -> x
      [] x.t = "str" -> int(x.v)
      [] OTHER -> Raise("TypeError")

\* the lists that hold each element of a set once
Orderings(S) ==
    {s \in [1..Cardinality(S) -> S] :
        \A i, j \in 1..Cardinality(S) : s[i] = s[j] => i = j}

\* all_ids, as it is
merge_project_ids_keeps_duplicates(existing_ids, resolved_ids) ==
    LET all_ids == [i \in 1..Len(existing_ids) |-> int_of(existing_ids[i])]
                   \o [i \in 1..Len(resolved_ids) |-> int_of(resolved_ids[i])]
    IN IF \E i \in 1..Len(all_ids) : all_ids[i].t = "raise"
       THEN {Raise("ValueError")}
       ELSE {JList(all_ids)}

\* list(set(all_ids)): the lists it can give (a set has no order), or the
\* error of int()
merge_project_ids(existing_ids, resolved_ids) ==
    LET all_ids == [i \in 1..Len(existing_ids) |-> int_of(existing_ids[i])]
                   \o [i \in 1..Len(resolved_ids) |-> int_of(resolved_ids[i])]
    IN IF \E i \in 1..Len(all_ids) : all_ids[i].t = "raise"
       THEN {Raise("ValueError")}
       ELSE {JList(s) : s \in Orderings({all_ids[i] : i \in 1..Len(all_ids)})}

\* the identifier of the n-th project of a server
Ident(n) == <<"p">> \o str(n)

\* an identifier no project has
Ident_unknown == <<"n", "o", "n", "e">>

\* the n-th project of a server: project 1 is the one a flaw is in
ServerProject(srv, n) ==
    IF n # 1 \/ srv.flaw = "none"
    THEN JObj([id |-> JInt(n), identifier |-> JStr(Ident(n))])
    ELSE CASE srv.flaw = "no_id" -> JObj([identifier |-> JStr(Ident(n))])
           [] srv.flaw = "no_identifier" -> JObj([id |-> JInt(n)])
           [] srv.flaw = "str_id" ->
                  JObj([id |-> JStr(str(n)), identifier |-> JStr(Ident(n))])

\* the server's answer to the n-th request for the project list: it reads
\* offset as a page number, or as the position of the page's first project
ProjectsRespond(srv, params, n) ==
    IF srv.fail \in {"timeout", "connection"} /\ n = srv.failAt
    THEN [kind |-> srv.fail, status_code |-> 0, is_json |-> FALSE,
          data |-> EmptyDict]
    ELSE IF srv.fail = "malformed" /\ n = srv.failAt
    THEN [kind |-> "response", status_code |-> 200, is_json |-> FALSE,
          data |-> EmptyDict]
    ELSE IF srv.fail = "status" /\ n = srv.failAt
    THEN [kind |-> "response", status_code |-> srv.status, is_json |-> TRUE,
          data |-> ErrorBody]
    ELSE LET first == IF srv.offsetIs = "page"
                      THEN (params.offset - 1) * params.pageSize + 1
                      ELSE params.offset
             end == IF first + params.pageSize - 1 < srv.count
                    THEN first + params.pageSize - 1 ELSE srv.count
         IN [kind |-> "response", status_code |-> 200, is_json |-> TRUE,
             data |-> [total |-> JInt(srv.count),
                       _embedded |-> JObj([elements |->
                           JList([i \in 1..(IF end >= first
                                            THEN end - first + 1 ELSE 0)
                                     |-> ServerProject(srv, first + i - 1)])])]]

ProjectCounts ==
    (0..MaxFewProjects) \cup {page_size, page_size + 1, 2 * page_size + 1}

ProjectServer(count, offsetIs, flaw, fail, failAt, status) ==
    [count |-> count, offsetIs |-> offsetIs, flaw |-> flaw, fail |-> fail,
     failAt |-> failAt, status |-> status]

ProjectServers ==
    {ProjectServer(n, o, "none", "none", 0, 200) :
        n \in ProjectCounts, o \in {"page", "index"}}
    \cup {ProjectServer(MaxFewProjects, o, f, "none", 0, 200) :
              o \in {"page", "index"},
              f \in {"no_id", "no_identifier", "str_id"}}
    \cup {ProjectServer(n, "page", "none", f, at, 200) :
              n \in {MaxFewProjects, 2 * page_size + 1},
              f \in {"timeout", "connection", "malformed"}, at \in {1, 2}}
    \cup {ProjectServer(n, "page", "none", "status", at, st) :
              n \in {MaxFewProjects, 2 * page_size + 1},
              at \in {1, 2}, st \in {401, 500}}

\* the project_identifiers drawn
IdentifierLists ==
    {Absent, JList(<<>>),
     JList(<<JStr(Ident(1))>>),
     JList(<<JStr(Ident(1)), JStr(Ident(1))>>),
     JList(<<JStr(Ident(1)), JStr(Ident(2))>>),
     JList(<<JStr(Ident(page_size + 1))>>),
     JList(<<JStr(Ident(2)), JStr(Ident_unknown)>>),
     JList(<<JStr(Ident_unknown)>>)}

\* the project_ids drawn
ProjectIdLists == {Absent, None, JList(<<>>), JList(<<JInt(5)>>)}

\* the base_url, api_key and start_date drawn
Credentials ==
    {<<JStr(Url_default), JStr(Key_k), Absent>>,
     <<JStr(Url_default), JStr(Key_k), JStr(Date_2024_01_01_Z)>>,
     <<Absent, JStr(Key_k), Absent>>,
     <<JStr(<<"/">>), JStr(Key_k), Absent>>,
     <<JStr(Url_default), Absent, Absent>>}

\* a config dict of the tap: a key whose value is Absent is left out
TapConfig(identifiers, ids, cred) ==
    LET all == [project_identifiers |-> identifiers, project_ids |-> ids,
                base_url |-> cred[1], api_key |-> cred[2],
                start_date |-> cred[3]]
    IN JObj([k \in {x \in DOMAIN all : all[x] # Absent} |-> all[k]])

TapConfigs ==
    {TapConfig(i, d, c) :
        i \in IdentifierLists, d \in ProjectIdLists, c \in Credentials}

ResolveInit ==
    /\ resolveIn \in
           [form : {"dict", "path"}, config : TapConfigs,
            server : ProjectServers]
           \cup [form : {"dict"}, config : {None},
                 server : {ProjectServer(0, "page", "none", "none", 0, 200)}]
    /\ resolvePc = "start"
    /\ tapConfig = None
    /\ resolveOffset = 0
    /\ id_map = EmptyDict
    /\ fetched = <<>>
    /\ logged = <<>>
    /\ raised = None
    /\ resolutions = 0
    /\ streamRequests = 0
    /\ firstRequests = <<>>
    /\ CallIdle
    /\ StreamIdle
    /\ SyncIdle
    /\ OrderIdle

\* _preprocess_config: the config dict, or the one read from the config
\* file, is the tap's config; identifiers are resolved when it asks for it
PreprocessConfig ==
    /\ resolvePc = "start"
    /\ tapConfig' = resolveIn.config
    /\ IF Truthy(resolveIn.config) /\ should_resolve(resolveIn.config.v)
       THEN resolvePc' = "resolving" /\ resolutions' = resolutions + 1
       ELSE resolvePc' = "ready" /\ resolutions' = resolutions
    /\ UNCHANGED <<resolveIn, resolveOffset, id_map, fetched, logged, raised,
                   streamRequests, firstRequests, callVars, streamVars, syncVars, orderVars>>

\* _resolve_project_identifiers up to the loop
BeginResolve ==
    /\ resolvePc = "resolving"
    /\ LET identifiers == DictGet(tapConfig.v, "project_identifiers",
                                  JList(<<>>))
           base_url == rstrip(DictGet(tapConfig.v, "base_url", JStr(<<>>)).v,
                              "/")
           api_key == DictGet(tapConfig.v, "api_key", None)
       IN IF ~Truthy(identifiers)
          THEN /\ resolvePc' = "ready"
               /\ UNCHANGED <<resolveOffset, id_map, logged>>
          ELSE IF base_url = <<>> \/ ~Truthy(api_key)
          THEN /\ resolvePc' = "ready"
               /\ logged' = Append(logged, "warning")
               /\ UNCHANGED <<resolveOffset, id_map>>
          ELSE /\ resolvePc' = "paging"
               /\ id_map' = EmptyDict
               /\ resolveOffset' = 1
               /\ logged' = logged
    /\ UNCHANGED <<resolveIn, tapConfig, fetched, raised, resolutions,
                   streamRequests, firstRequests, callVars, streamVars, syncVars, orderVars>>

\* one pass of the loop: a page of projects is requested and put in id_map
FetchProjects ==
    /\ resolvePc = "paging"
    /\ \E params \in {[offset |-> resolveOffset, pageSize |-> page_size]} :
       \E reply \in {ProjectsRespond(resolveIn.server, params,
                                     Len(fetched) + 1)} :
       \E page \in {embedded_elements(reply.data)} :
       \E map \in {update_id_map(id_map, page)} :
          /\ fetched' = Append(fetched, params)
          /\ IF raises_RequestException(reply)
             THEN /\ logged' = Append(logged, "error")
                  /\ resolvePc' = "ready"
                  /\ UNCHANGED <<resolveOffset, id_map, raised>>
             ELSE IF page = <<>>
             THEN /\ resolvePc' = "resolved"
                  /\ UNCHANGED <<resolveOffset, id_map, logged, raised>>
             ELSE IF map.t = "raise"
             THEN /\ raised' = map
                  /\ resolvePc' = "aborted"
                  /\ UNCHANGED <<resolveOffset, id_map, logged>>
             ELSE /\ id_map' = map.v
                  /\ IF resolveOffset + Len(page)
                            >= DictGet(reply.data, "total", JInt(0)).v
                     THEN resolvePc' = "resolved"
                          /\ resolveOffset' = resolveOffset
                     ELSE resolvePc' = "paging"
                          /\ resolveOffset' = resolveOffset + page_size
                  /\ UNCHANGED <<logged, raised>>
    /\ UNCHANGED <<resolveIn, tapConfig, resolutions, streamRequests,
                   firstRequests,
                   callVars, streamVars, syncVars, orderVars>>

\* after the loop: the identifiers are looked up and project_ids is written
FinishResolve ==
    /\ resolvePc = "resolved"
    /\ \E identifiers \in {tapConfig.v["project_identifiers"].v} :
       \E resolved_ids \in {resolved_ids_of(identifiers, id_map)} :
       \E missing \in {missing_of(identifiers, id_map)} :
          IF resolved_ids = <<>>
          THEN /\ logged' = logged
                     \o (IF missing # <<>> THEN <<"warning">> ELSE <<>>)
               /\ resolvePc' = "ready"
               /\ UNCHANGED <<tapConfig, raised>>
          ELSE \E ids \in merge_project_ids(
                              (IF Truthy(DictGet(tapConfig.v, "project_ids",
                                                 None))
                               THEN tapConfig.v["project_ids"].v ELSE <<>>),
                              resolved_ids) :
                  /\ logged' = logged
                        \o (IF missing # <<>> THEN <<"warning">> ELSE <<>>)
                        \o <<"info">>
                  /\ IF ids.t = "raise"
                     THEN /\ raised' = ids
                          /\ resolvePc' = "aborted"
                          /\ tapConfig' = tapConfig
                     ELSE /\ tapConfig' = JObj(DictUpdate(tapConfig.v,
                                                  "project_ids" :> ids))
                          /\ resolvePc' = "ready"
                          /\ raised' = raised
    /\ UNCHANGED <<resolveIn, resolveOffset, id_map, fetched, resolutions,
                   streamRequests, firstRequests, callVars, streamVars, syncVars, orderVars>>

\* the tap is constructed: its streams are synced and make their requests,
\* each to its path with the params get_url_params gives for the tap's config
SyncStreams ==
    /\ resolvePc = "ready"
    /\ resolvePc' = "syncing"
    /\ streamRequests' = streamRequests + 1
    /\ firstRequests' = StreamRequests(tapConfig)
    /\ UNCHANGED <<resolveIn, tapConfig, resolveOffset, id_map, fetched,
                   logged, raised, resolutions, callVars, streamVars,
                   syncVars, orderVars>>

ResolveNext ==
    \/ PreprocessConfig
    \/ BeginResolve
    \/ FetchProjects
    \/ FinishResolve
    \/ SyncStreams

SpecResolve == ResolveInit /\ [][ResolveNext]_vars

\* --------------------------------------------------------------- claims

\* the last '/'-separated segment of s once its trailing slashes are dropped
LastSegment(s) ==
    LET e == IF \E i \in 1..Len(s) : s[i] # "/"
             THEN CHOOSE i \in 1..Len(s) :
                      s[i] # "/" /\ \A j \in (i + 1)..Len(s) : s[j] = "/"
             ELSE 0
        b == IF \E i \in 1..e : s[i] = "/"
             THEN CHOOSE i \in 1..e :
                      s[i] = "/" /\ \A j \in (i + 1)..e : s[j] # "/"
             ELSE 0
    IN SubSeq(s, b + 1, e)

\* a segment that parses as an integer: digits after an optional sign
IsNumeric(seg) ==
    \/ AllDigits(seg)
    \/ Len(seg) > 1 /\ seg[1] \in {"+", "-"} /\ AllDigits(Tail(seg))

NumericValue(seg) ==
    IF seg[1] = "-" THEN 0 - DecimalValue(Tail(seg))
    ELSE IF seg[1] = "+" THEN DecimalValue(Tail(seg))
    ELSE DecimalValue(seg)

\* what the link resolver's contract gives for an href (None, or a str)
ExpectedId(href) ==
    IF href = None \/ href.v = <<>> THEN None
    ELSE IF IsNumeric(LastSegment(href.v))
    THEN JInt(NumericValue(LastSegment(href.v)))
    ELSE None

\* C6: extract_id_from_href never raises on an absent or str href; it returns
\* the last segment (trailing slashes dropped) as an integer when that segment
\* is numeric and null otherwise, with the five documented examples.
C6_ExtractId ==
    callPc = "extracted" =>
        /\ callOut.t # "raise"
        /\ callOut = ExpectedId(callIn.href)
        /\ (callIn.href = JStr(Href_projects_5) => callOut = JInt(5))
        /\ (callIn.href = JStr(Href_users_123_slash) => callOut = JInt(123))
        /\ (callIn.href = None => callOut = None)
        /\ (callIn.href = JStr(<<>>) => callOut = None)
        /\ (callIn.href = JStr(Href_invalid) => callOut = None)

C6_Witness ==
    /\ callPc = "extracted"
    /\ callIn.href = JStr(Href_users_123_slash)
    /\ callOut = JInt(123)

\* the link stored under key, when it is an object
LinkAt(links, key) ==
    IF key \in DOMAIN links /\ links[key].t = "obj" THEN links[key].v
    ELSE EmptyDict

\* C7: flatten_link returns exactly the keys <key>_id and <key>_title; the
\* title is the link's title verbatim (null if absent) and the id is the
\* integer of the link's href (null if the link or href is absent or not
\* numeric).
C7_FlattenLink ==
    callPc = "flattened" =>
        LET link == LinkAt(callIn.links, callIn.key)
            idKey == callIn.key \o "_id"
            titleKey == callIn.key \o "_title"
        IN /\ DOMAIN callOut.v = {idKey, titleKey}
           /\ callOut.v[titleKey] =
                  (IF "title" \in DOMAIN link THEN link["title"] ELSE None)
           /\ callOut.v[idKey] =
                  (IF "href" \in DOMAIN link THEN ExpectedId(link["href"])
                   ELSE None)

C7_Witness ==
    /\ callPc = "flattened"
    /\ callIn.key = "parent"
    /\ callIn.links = ("parent" :> LinkObj(JStr(Href_projects_5), JStr(Title_Parent)))
    /\ callOut = JObj([parent_id |-> JInt(5), parent_title |-> JStr(Title_Parent)])

\* a valid ISO 8601 datetime in the extended format: a calendar date, then
\* (unless the time is left out) 'T', a time, and 'Z' or an offset or neither
IsISO8601(s) ==
    /\ Len(s) >= 10
    /\ parse_isoformat_date(SubSeq(s, 1, 10))
    /\ Len(s) > 10 =>
           /\ s[11] = "T"
           /\ LET rest == SubSeq(s, 12, Len(s))
              IN IF rest # <<>> /\ rest[Len(rest)] = "Z"
                 THEN parse_hh_mm_ss(SubSeq(rest, 1, Len(rest) - 1), 24)
                 ELSE parse_isoformat_time(rest)

\* C3: the validator accepts a start_date str exactly when it is a valid
\* ISO 8601 datetime, and rejects every other str with a validation error.
C3_ValidatorAcceptsExactlyIso ==
    callPc = "validated" =>
        (callOut = None <=> IsISO8601(callIn.date_string.v))

OffsetOf(params) ==
    IF "offset" \in DOMAIN params.v THEN params.v["offset"].v ELSE 0

Ceil(a, b) == (a + b - 1) \div b

\* the requests a paging driver needs for total records by pageSize: one
\* per page, and the first one even when there is no record
PagesNeeded(total, pageSize) ==
    IF total = 0 THEN 1 ELSE Ceil(total, pageSize)

\* C1 as stated: against a regular server the finished stream has issued
\* exactly ceil(T/P) requests.
C1_ExactlyCeilRequests ==
    (server.kind = "regular" /\ pc = "Done") =>
        Len(requests) = Ceil(server.total, server.pageSize)

\* C1, amended: against a regular server (total T, pageSize P > 0, offset
\* echoed, nextByOffset on every page) the i-th request asks for offset
\* (i-1)*P, the first without an offset parameter; the stream ends after the
\* request whose offset + P >= T, having issued ceil(T/P) requests, or one
\* when T = 0; for T = 250, P = 100 the offsets are 0, 100, 200.
C1_Pagination ==
    server.kind = "regular" =>
        LET T == server.total
            P == server.pageSize
            n == Len(requests)
        IN /\ n <= PagesNeeded(T, P)
           /\ \A i \in 1..n :
                  /\ OffsetOf(requests[i]) = (i - 1) * P
                  /\ "offset" \in DOMAIN requests[i].v <=> i > 1
           /\ pc = "Done" =>
                  /\ n = PagesNeeded(T, P)
                  /\ OffsetOf(requests[n]) + P >= T
                  /\ (T = 250 /\ P = 100) =>
                         [i \in 1..n |-> OffsetOf(requests[i])] = <<0, 100, 200>>

C1_Witness ==
    /\ server.kind = "regular" /\ server.total = 250 /\ server.pageSize = 100
    /\ pc = "Done"
    /\ Len(requests) = 3

\* the streams whose class declares a replication key
ReplicatingStreams ==
    {"projects", "work_packages", "types", "users", "versions",
     "time_entries", "memberships"}

\* C2: a request carries the filters parameter, naming the replication key
\* and start_date, exactly when the stream declares a replication key,
\* start_date is set and the stream has no prior watermark.
C2_FilterIff ==
    \A i \in 1..Len(requests) :
        LET params == requests[i].v
            wanted == /\ Stream \in ReplicatingStreams
                      /\ "start_date" \in DOMAIN config
                      /\ config["start_date"].v # <<>>
                      /\ Stream \notin DOMAIN priorState
        IN /\ "filters" \in DOMAIN params <=> wanted
           /\ wanted =>
                  /\ Contains(params["filters"].v, Key_updatedAt)
                  /\ Contains(params["filters"].v, <<">", "=">>)
                  /\ Contains(params["filters"].v, config["start_date"].v)

C2_Witness ==
    /\ idx = 1 /\ Stream = "projects"
    /\ pc = "PageReceived"
    /\ priorState = EmptyDict
    /\ "filters" \in DOMAIN requests[1].v
    /\ Contains(requests[1].v["filters"].v, Date_2024_01_01_Z)

\* C4: with a prior watermark for projects, every projects request carries
\* a filters parameter that references the watermark.
C4_FilterReferencesWatermark ==
    (idx = 1 /\ "projects" \in DOMAIN priorState) =>
        \A i \in 1..Len(requests) :
            /\ "filters" \in DOMAIN requests[i].v
            /\ Contains(requests[i].v["filters"].v, priorState["projects"].v)

\* C8 as stated: the fixture page makes the projects stream write SCHEMA,
\* the RECORD {id, name, parent_id: null, parent_title: null}, STATE, with
\* one request.
C8_RecordOfFourFields ==
    (idx = 1 /\ server.kind = "fixture" /\ pc = "Done") =>
        /\ Len(requests) = 1
        /\ emitted =
               <<SchemaMessage("projects"),
                 RecordMessage("projects",
                     JObj([id |-> JInt(1), name |-> JStr(Title_Test_Project),
                           parent_id |-> None, parent_title |-> None])),
                 StateMessage("projects")>>

\* C8, amended: the fixture page makes the projects stream write one SCHEMA,
\* then one RECORD holding the raw fields id, name and _links and the
\* flattened parent_id: null and parent_title: null, then one STATE, with
\* exactly one request.
C8_EndToEnd ==
    (idx = 1 /\ server.kind = "fixture" /\ pc = "Done") =>
        /\ Len(requests) = 1
        /\ emitted =
               <<SchemaMessage("projects"),
                 RecordMessage("projects",
                     JObj([id |-> JInt(1), name |-> JStr(Title_Test_Project),
                           _links |-> JObj([parent |-> JObj(EmptyDict)]),
                           parent_id |-> None, parent_title |-> None])),
                 StateMessage("projects")>>

C8_Witness ==
    /\ idx = 1 /\ server.kind = "fixture" /\ pc = "Done"
    /\ Len(emitted) = 3
    /\ emitted[2].type = "RECORD"

\* C9: a 403 answer to the users stream never fails the stream: it ends
\* Done with no record and one warning.
C9_Users403Completes ==
    (idx \in 1..Len(StreamNames) /\ Stream = "users"
        /\ response.status_code = 403 /\ pc # "PageReceived") =>
        /\ pc = "Done"
        /\ warnings = 1
        /\ \A i \in 1..Len(emitted) : emitted[i].type # "RECORD"

RetryStatuses == {429, 500, 502, 503, 504}

\* C10: a response is retried exactly when its status is 429, 500, 502, 503
\* or 504: only those statuses are retried, at most max_retries times, and
\* every other error status fails the stream without a retry.
C10_RetriedIffRetryStatus ==
    /\ attempts > 0 => response.status_code \in RetryStatuses
    /\ attempts <= (IF pc = "idle" THEN 0 ELSE config["max_retries"].v)
    /\ (pc = "Failed" /\ error \in {Raise("RetriableAPIError"),
                                    Raise("FatalAPIError")}
           /\ raises_for_status(response.status_code)) =>
           IF response.status_code \in RetryStatuses
           THEN attempts = config["max_retries"].v
           ELSE attempts = 0

\* url is base or lies under base + '/'
WithinBase(url, base) == url = base \/ startswith(url, base \o <<"/">>)

\* C11: every URL that HttpClient.get requests lies within the configured
\* base URL, and an endpoint containing '..' is always rejected.
C11_GetStaysWithinBase ==
    callPc = "requested" =>
        /\ callOut.t = "str" =>
               WithinBase(callOut.v, HttpClient_base_url(callIn.base_url))
        /\ Contains(callIn.endpoint, <<".", ".">>) =>
               callOut = Raise("ValueError")

\* C12: a run never ends with the client open: once HttpClient has been
\* constructed, close() has been called when the run exits, whatever the
\* exit path; a run exits without a client only on an error raised before
\* the client exists.
C12_ClientClosedOnExit ==
    syncPc = "exited" =>
        /\ client # "open"
        /\ client = "none" =>
               syncError # None /\ sent = 0 /\ written = <<>>

C12_Witness ==
    /\ syncIn.entry = "do_sync"
    /\ syncPc = "exited"
    /\ syncError = Raise("HTTPError")
    /\ client = "closed"

\* the catalog holds an entry of the stream whose metadata marks it
\* selected = true at the empty breadcrumb
MarkedSelected(catalog, id) ==
    /\ catalog.t = "obj"
    /\ "streams" \in DOMAIN catalog.v
    /\ \E i \in 1..Len(catalog.v["streams"].v) :
           LET entry == catalog.v["streams"].v[i].v
           IN /\ DictGet(entry, "tap_stream_id", None) = JStr(id)
              /\ "metadata" \in DOMAIN entry
              /\ \E k \in 1..Len(entry["metadata"].v) :
                     LET meta == entry["metadata"].v[k].v
                     IN /\ meta["breadcrumb"] = JList(<<>>)
                        /\ DictGet(meta["metadata"].v, "selected", None)
                               = JBool(TRUE)

\* C13: do_sync syncs projects iff no catalog is supplied or the catalog
\* marks projects selected at the empty breadcrumb; otherwise no request is
\* made and no message is written.
C13_SyncedIffSelected ==
    syncIn.entry = "do_sync" =>
        LET wanted == \/ syncIn.catalog = None
                      \/ MarkedSelected(syncIn.catalog, Id_projects)
        IN /\ ~wanted => sent = 0 /\ written = <<>>
           /\ (wanted /\ syncPc = "exited" /\ syncError = None) =>
                  sent = 1 /\ written # <<>>

\* C14: the messages of a run start with the one SCHEMA message of the
\* stream, every RECORD comes after it, and a run that completes ends with
\* a STATE message after the last RECORD.
C14_SchemaRecordsState ==
    /\ \A i \in 1..Len(written) : written[i].type = "SCHEMA" <=> i = 1
    /\ (syncPc = "exited" /\ syncError = None /\ written # <<>>) =>
           /\ written[Len(written)].type = "STATE"
           /\ \A i \in 2..(Len(written) - 1) : written[i].type = "RECORD"

\* the streams of the events, each run of events of one stream counted once
RECURSIVE StreamsOf(_)
StreamsOf(events) ==
    IF events = <<>> THEN <<>>
    ELSE LET rest == StreamsOf(Tail(events))
         IN IF rest # <<>> /\ Head(rest) = Head(events).stream THEN rest
            ELSE <<Head(events).stream>> \o rest

IsPrefix(s, t) == Len(s) <= Len(t) /\ s = SubSeq(t, 1, Len(s))

\* C15 as stated: the streams are synced one after the other in the order
\* of the twelve declared, attachments last, none interleaved with another.
C15_TwelveSequential ==
    IsPrefix(StreamsOf(order), discover_streams)

\* C15: the eleven streams other than attachments are synced one after the
\* other in their declared order, each complete before the next begins;
\* attachments is synced once per work_packages record, inside the sync of
\* work_packages: each of its syncs comes after a work_packages event and
\* is followed by the writing of that work_packages record.
C15_ParentsSequentialChildInside ==
    LET others == SelectSeq(order, LAMBDA e : e.stream # "attachments")
        declared == SelectSeq(discover_streams, LAMBDA s : s # "attachments")
    IN /\ IsPrefix(StreamsOf(others), declared)
       /\ \A i \in 1..Len(order) :
              order[i].stream = "attachments" =>
                  /\ i > 1
                  /\ order[i - 1].stream \in {"work_packages", "attachments"}
                  /\ (i < Len(order) /\ order[i + 1].stream # "attachments")
                         => order[i + 1] = Event("work_packages", "record")
       /\ (orderPc = "next" /\ order # <<>>) =>
              order[Len(order)].stream # "attachments"

C15_Witness ==
    /\ orderIdx = Len(discover_streams)
    /\ orderPc = "next"
    /\ Len(SelectSeq(order, LAMBDA e : e = Event("attachments", "request"))) = 2
    /\ order[Len(order)].stream = "memberships"

\* C16: when the resolution loop has ended without error, every project of
\* the server that has an identifier is in id_map.
C16_FullListFetched ==
    resolvePc = "resolved" =>
        \A n \in 1..resolveIn.server.count :
            "identifier" \in DOMAIN ServerProject(resolveIn.server, n).v
                => Ident(n) \in DOMAIN id_map

\* a request for the project list failed
ResolutionFailed ==
    /\ resolveIn.server.fail # "none"
    /\ Len(fetched) >= resolveIn.server.failAt

\* C17: no failure during the resolution leaves __init__ as an exception;
\* after a failed request the failure is logged, the config is as it was
\* given and the run goes on to sync.
C17_FailuresLoggedRunProceeds ==
    /\ raised = None
    /\ resolvePc # "aborted"
    /\ (resolvePc \in {"ready", "syncing"} /\ ResolutionFailed) =>
           /\ logged # <<>>
           /\ logged[Len(logged)] = "error"
           /\ tapConfig = resolveIn.config

\* the config asks for a resolution: project_identifiers is a non-empty
\* list and project_ids is empty in the sense of ids_empty
AsksResolution(cfg, ids_empty(_)) ==
    /\ cfg.t = "obj"
    /\ Truthy(DictGet(cfg.v, "project_identifiers", None))
    /\ ids_empty(DictGet(cfg.v, "project_ids", None))

\* the resolution ran exactly when wanted, once, before any stream request;
\* when it did not run the config is as given and no request was made
RunsIff(wanted) ==
    /\ resolvePc \notin {"idle", "start"} =>
           /\ resolutions = (IF wanted THEN 1 ELSE 0)
           /\ ~wanted => tapConfig = resolveIn.config /\ fetched = <<>>
    /\ resolvePc \in {"start", "resolving", "paging", "resolved"} =>
           streamRequests = 0

\* C18 as stated: the resolution runs iff project_identifiers is non-empty
\* and project_ids is not set (no key, or null).
C18_RunsIffIdsNotSet ==
    resolvePc # "idle" =>
        RunsIff(AsksResolution(resolveIn.config, LAMBDA ids : ids = None))

\* C18: the resolution runs iff project_identifiers is non-empty and
\* project_ids is not set or is empty; it runs at most once, and while it
\* runs no stream has made a request; when it does not run the config is
\* unchanged and no resolution request is made.
C18_RunsIffIdsEmpty ==
    resolvePc # "idle" =>
        RunsIff(AsksResolution(resolveIn.config, LAMBDA ids : ~Truthy(ids)))

C18_Witness ==
    /\ resolvePc = "syncing"
    /\ resolveIn.config.t = "obj"
    /\ DictGet(resolveIn.config.v, "project_ids", None) = JList(<<>>)
    /\ resolutions = 1
    /\ Len(fetched) = 2
    /\ streamRequests = 1

\* the integer an id stands for
IntOf(x) == IF x.t = "int" THEN x.v ELSE DecimalValue(x.v)

\* C19: after a resolution that ended without error, if an identifier
\* resolved then project_ids is a list of integers without duplicates that
\* holds the ids of the resolved identifiers and the ids configured before;
\* if none resolved the config is as it was given.
C19_ProjectIdsMerged ==
    (/\ resolvePc \in {"ready", "syncing"}
     /\ resolutions = 1
     /\ \A i \in 1..Len(logged) : logged[i] # "error") =>
        LET given == resolveIn.config.v
            identifiers == given["project_identifiers"].v
            resolved == {IntOf(id_map[identifiers[i].v]) :
                            i \in {j \in 1..Len(identifiers) :
                                       identifiers[j].v \in DOMAIN id_map}}
            before == DictGet(given, "project_ids", None)
            previous == IF Truthy(before)
                        THEN {IntOf(before.v[i]) : i \in 1..Len(before.v)}
                        ELSE {}
        IN IF resolved # {}
           THEN LET ids == tapConfig.v["project_ids"]
                IN /\ ids.t = "list"
                   /\ \A i \in 1..Len(ids.v) : ids.v[i].t = "int"
                   /\ \A i, j \in 1..Len(ids.v) :
                          ids.v[i] = ids.v[j] => i = j
                   /\ {ids.v[i].v : i \in 1..Len(ids.v)}
                          = resolved \cup previous
                   /\ \A k \in DOMAIN given \ {"project_ids"} :
                          tapConfig.v[k] = given[k]
           ELSE tapConfig = resolveIn.config

C19_Witness ==
    /\ resolvePc = "ready"
    /\ resolveIn.server.flaw = "str_id"
    /\ resolveIn.config.t = "obj"
    /\ DictGet(resolveIn.config.v, "project_identifiers", None)
           = JList(<<JStr(Ident(1)), JStr(Ident(1))>>)
    /\ DictGet(tapConfig.v, "project_ids", None) = JList(<<JInt(1)>>)

\* C20: once a page arrived whose status is no error and whose body is no
\* JSON, the stream only fails: the error is the fatal one, the request was
\* made once (no retry, no further page) and no record was written.
C20_MalformedPageFails ==
    (~raises_for_status(response.status_code) /\ ~response.is_json) =>
        /\ pc \in {"PageReceived", "Failed"}
        /\ attempts = 0
        /\ Len(requests) = 1
        /\ \A i \in 1..Len(emitted) : emitted[i].type # "RECORD"
        /\ pc = "Failed" => error = Raise("FatalAPIError")

C20_Witness ==
    /\ pc = "Failed"
    /\ server.kind = "malformed"
    /\ ~response.is_json
    /\ config["max_retries"].v = MaxRetriesBound
    /\ error = Raise("FatalAPIError")

\* a configuration error: the config is no map, its api_key is missing,
\* empty or the placeholder, or its base_url starts with neither http://
\* nor https://
ConfigError(cfg) ==
    \/ cfg.t # "obj"
    \/ /\ cfg.t = "obj"
       /\ \/ DictGet(cfg.v, "api_key", None) \in
                 {None, JStr(<<>>), JStr(Key_placeholder)}
          \/ /\ "base_url" \in DOMAIN cfg.v
             /\ SubSeq(cfg.v["base_url"].v, 1, 7) # Prefix_http
             /\ SubSeq(cfg.v["base_url"].v, 1, 8) # Prefix_https

\* C21: on a configuration error do_sync ends with the error before the
\* client is constructed: no client, no request, no message.
C21_ConfigErrorAbortsFirst ==
    (syncIn.entry = "do_sync" /\ ConfigError(syncIn.config)) =>
        /\ syncPc \in {"start", "exited"}
        /\ client = "none"
        /\ sent = 0
        /\ written = <<>>
        /\ syncPc = "exited" => syncError = Raise("ValueError")

C21_Witness ==
    /\ syncIn.entry = "do_sync"
    /\ syncIn.config = JObj([api_key |-> JStr(Key_placeholder)])
    /\ syncPc = "exited"
    /\ syncError = Raise("ValueError")
    /\ client = "none"

\* the id and title fields of the links of a stream's post_process
IdTitleFields(stream) ==
    CASE stream = "projects" -> {"parent_id", "parent_title"}
      [] stream = "work_packages" ->
             {"type_id", "type_title", "status_id", "status_title",
              "priority_id", "priority_title", "assignee_id",
              "assignee_title", "project_id", "project_title", "author_id",
              "author_title", "responsible_id", "responsible_title",
              "version_id", "version_title", "parent_id", "parent_title"}
      [] stream = "versions" -> {"project_id", "project_title"}
      [] stream = "time_entries" ->
             {"project_id", "project_title", "work_package_id",
              "work_package_title", "user_id", "user_title", "activity_id",
              "activity_title"}
      [] stream = "relations" ->
             {"from_work_package_id", "to_work_package_id"}
      [] stream = "memberships" ->
             {"project_id", "project_title", "principal_id",
              "principal_title", "role_ids", "role_titles"}
      [] OTHER -> {}

\* C22: every record written holds every id and title field that the
\* post_process of its stream defines.
C22_NoPartialRecord ==
    \A i \in 1..Len(emitted) :
        emitted[i].type = "RECORD" =>
            IdTitleFields(emitted[i].stream) \subseteq DOMAIN emitted[i].record.v

C24_AttachmentsUnderParent ==
    (callPc = "attached" /\ callOut.t = "request") =>
        LET n == Len(Path_work_packages)
            m == Len(callOut.path) - Len(Path_attachments)
        IN /\ SubSeq(callOut.path, 1, n) = Path_work_packages
           /\ SubSeq(callOut.path, m + 1, Len(callOut.path)) = Path_attachments
           /\ AllDigits(SubSeq(callOut.path, n + 1, m))
           /\ DecimalValue(SubSeq(callOut.path, n + 1, m))
                  = callIn.parent["id"].v
           /\ DOMAIN callOut.params.v \subseteq {"offset"}
           /\ callOut.record["work_package_id"] = callIn.parent["id"]
           /\ callOut.record["work_package_title"]
                  = DictGet(callIn.parent, "subject", None)

C24_Witness ==
    /\ callPc = "attached"
    /\ callOut.t = "request"
    /\ "start_date" \in DOMAIN callIn.config
    /\ callIn.token # None
    /\ callIn.parent["id"] = JInt(12)
    /\ callOut.params.v = ("offset" :> callIn.token)
    /\ callOut.record["work_package_title"] = JStr(Title_Parent)

\* C25: for every page get_next_page_token gives no cursor, or an offset
\* greater than the offset of the page.
C25_TokenAdvances ==
    (callPc = "paged" /\ callIn.response.is_json) =>
        \/ callOut = None
        \/ /\ callOut.t = "int"
           /\ callOut.v > DictGet(callIn.response.data, "offset", JInt(0)).v

\* the page received is a 200 JSON body that links no nextByOffset
NoNextLink ==
    /\ response # NoResponse
    /\ response.status_code = 200
    /\ response.is_json
    /\ "nextByOffset" \notin
           DOMAIN DictGet(response.data, "_links", JObj(EmptyDict)).v

\* the elements of the page received
PageElements ==
    DictGet(DictGet(response.data, "_embedded", JObj(EmptyDict)).v,
            "elements", JList(<<>>)).v

\* C26: a page that links no nextByOffset ends the stream: its records are
\* emitted, then the state, and no further request is made, whatever its
\* total, offset and pageSize say.
C26_NoLinkEndsStream ==
    [][(pc = "PageReceived" /\ NoNextLink) =>
          /\ pc' = "Done"
          /\ requests' = requests
          /\ Len(emitted') = Len(emitted) + Len(PageElements) + 1
          /\ \A i \in 1..Len(PageElements) :
                 /\ emitted'[Len(emitted) + i].type = "RECORD"
                 /\ emitted'[Len(emitted) + i].record.v["id"]
                        = PageElements[i].v["id"]
          /\ emitted'[Len(emitted')].type = "STATE"]_vars

C26_Witness ==
    /\ pc = "Done"
    /\ server.kind = "unlinked"
    /\ server.total = MaxTotal
    /\ server.pageSize = 2
    /\ Len(requests) = 1
    /\ Len(emitted) = 4

\* client.get("projects") gave a parsed body
GotBody ==
    /\ syncIn.reply.kind = "response"
    /\ syncIn.reply.status_code = 200
    /\ syncIn.reply.is_json

\* the _embedded wrapper of the body, the empty map when there is none
Wrapper == DictGet(syncIn.reply.body.v, "_embedded", JObj(EmptyDict))

\* the record collection of the wrapper: elements unless it is absent or
\* falsy, then projects, then the empty list
Collection ==
    IF "elements" \in DOMAIN Wrapper.v /\ Truthy(Wrapper.v["elements"])
    THEN Wrapper.v["elements"]
    ELSE DictGet(Wrapper.v, "projects", JList(<<>>))

\* the record collection of the wrapper: elements unless it is absent or
\* an empty list, then projects, then the empty list
CollectionOrEmptyList ==
    IF "elements" \in DOMAIN Wrapper.v
           /\ ~(Wrapper.v["elements"].t = "list"
                    /\ Wrapper.v["elements"].v = <<>>)
    THEN Wrapper.v["elements"]
    ELSE DictGet(Wrapper.v, "projects", JList(<<>>))

\* get_records ends with the list as it is, or with an error and no record,
\* when the body, the wrapper or the collection has the wrong type
ReturnsOrRaises(collection) ==
    (syncPc \in {"fetching", "main_fetching"} /\ GotBody) =>
        IF \/ syncIn.reply.body.t # "obj"
           \/ Wrapper.t # "obj"
           \/ collection.t # "list"
        THEN syncError' = Raise("ValueError") /\ projects' = <<>>
        ELSE syncError' = None /\ projects' = collection.v

WithoutProjects(conf) ==
    [k \in DOMAIN conf \ {"project_ids", "project_identifiers"} |->
        conf[k]]

C29_EffectiveLimits ==
    callPc = "answered" =>
        /\ callOut.timeout =
               IF callIn.timeout.t = "int" THEN callIn.timeout.v
               ELSE DEFAULT_TIMEOUT
        /\ callOut.max_retries =
               IF callIn.max_retries.t = "int" THEN callIn.max_retries.v
               ELSE DEFAULT_MAX_RETRIES
        /\ (callIn.max_retries.t = "int" /\ callIn.max_retries.v = 0
                /\ callIn.status_code \in RetryStatuses) =>
               callOut.attempts = 1 /\ callOut.raised

\* C30: every field post_process adds to a record is a property of the
\* schema of its stream.
C30_DerivedFieldsDeclared ==
    callPc = "processed" =>
        (DOMAIN callOut.v \ DOMAIN callIn.row)
            \subseteq schema_properties(callIn.stream)

=============================================================================
